---- MODULE Spec2Model ----
(***************************************************************************)
(* PoCX forging scheduler, submission queue, forging-assignment state,      *)
(* assignment transactions, difficulty adjustment and the submit_nonce     *)
(* handler, modelled from src/pocx/mining/scheduler.cpp, submission.cpp,   *)
(* consensus/difficulty.cpp, consensus/params.cpp,                         *)
(* algorithms/time_bending.cpp, assignments/assignment_state.cpp,          *)
(* assignments/opcodes.cpp, rpc/mining.cpp and undo.h.                     *)
(*                                                                         *)
(* The specifications share the variables:                                 *)
(*   Spec       the scheduler: RPC callers, the worker thread, Shutdown,   *)
(*              the host chain's tip and the system clock;                 *)
(*   FairSpec   the same with callers that mine on one block, and with the *)
(*              fairness the thread scheduler and the clock provide;       *)
(*   SpecQueue  more callers than the queue holds, the clock standing      *)
(*              still;                                                     *)
(*   SpecAssign the assignment queries over a bounded set of records;      *)
(*   SpecTx     the OP_RETURN functions, the plot ownership proof and the  *)
(*              connect and disconnect of a block of assignments;          *)
(*   SpecChain  the difficulty adjustment over chains grown block by       *)
(*              block;                                                     *)
(*   SpecRpc    the submit_nonce handler run by two RPC threads;           *)
(*   SpecFn     the compression bounds and the Shabal-256 functions.       *)
(***************************************************************************)
EXTENDS Integers, Sequences, FiniteSets, TLC

(***************************************************************************)
(* Bounds.  The program's widths and capacities are scaled so that the     *)
(* state space is finite and the arithmetic fits the checker's integers.   *)
(***************************************************************************)
\* capacity of the submission queue (scheduler.h:53 sets 1000)
MAX_QUEUE_SIZE == 2
\* number of SubmitNonce calls in one behaviour of Spec
MaxSubmissions == 2
\* number of SubmitNonce calls in one behaviour of SpecQueue
MaxQueueSubmissions == 3
\* fixed-point fraction bits of the deadline transform (time_bending.cpp:64,65 set 21 and 42)
P == 2
Q == 4
\* heights queried in the assignment specification: 0..MaxHeight
MaxHeight == 4
\* the system clock runs from 0 to MaxTime, or to the candidate's forge time if later
MaxTime == 4
\* assignment and revocation payloads in one block: 1..MaxPayloads
MaxPayloads == 2
\* inputs of the transaction handed to VerifyPlotOwnership: 0..MaxInputs
MaxInputs == 2
\* positions at which a script handed to the OP_RETURN functions is edited
MaxScriptLen == 14
\* blocks connected on top of the genesis block of a grown chain
MaxChain == 4
\* blocks connected on top of the genesis block of a chain that fills a long
\* rolling window
MaxWindowChain == 8
\* submit_nonce calls of a behaviour of the RPC handler
MaxRpcCalls == 3
\* halving intervals (eras) the compression bounds are computed for, in blocks
MaxEra == 3
\* arguments of the integer cube root: 0..MaxCubeInput
MaxCubeInput == 4096

(***************************************************************************)
(* Chain parameters (Consensus::Params of the host chain, scaled).         *)
(***************************************************************************)
nPowTargetSpacing == 1
nPoCXRollingWindowSize == 2
fPoCXLowCapacityCalibration == FALSE
\* 2^42 and 2^60 of params.cpp:26,27, scaled to 2^5 and 2^7
POWER_42 == 32
POWER_60 == 128
\* uint64_t arithmetic wraps at 2^64, scaled to 2^11: the word is 2^4 times
\* the low-capacity calibration power, as 2^64 is 2^4 times 2^60
UINT64_MOD == 2048
\* Consensus::Params of the chain the scheduler runs on
ConsensusParams ==
    [nPowTargetSpacing |-> nPowTargetSpacing,
     nPoCXRollingWindowSize |-> nPoCXRollingWindowSize,
     fPoCXLowCapacityCalibration |-> fPoCXLowCapacityCalibration,
     nSubsidyHalvingInterval |-> 3]

Min(a, b) == IF a < b THEN a ELSE b
Max(a, b) == IF a > b THEN a ELSE b

(***************************************************************************)
(* time_bending.cpp: integer cube root by doubling and bisection.          *)
(***************************************************************************)
RECURSIVE CubeRootHi(_, _)
CubeRootHi(hi, x) == IF hi * hi * hi < x THEN CubeRootHi(hi * 2, x) ELSE hi

\* a bisection that moves up only below the argument
RECURSIVE CubeRootBisectStrict(_, _, _)
CubeRootBisectStrict(lo, hi, x) ==
    IF lo < hi
    THEN LET mid == (lo + hi + 1) \div 2
             mid3 == mid * mid * mid
         IN IF mid3 < x THEN CubeRootBisectStrict(mid, hi, x)
                        ELSE CubeRootBisectStrict(lo, mid - 1, x)
    ELSE lo

RECURSIVE CubeRootBisect(_, _, _)
CubeRootBisect(lo, hi, x) ==
    IF lo < hi
    THEN LET mid == (lo + hi + 1) \div 2
             mid3 == mid * mid * mid
         IN IF mid3 <= x THEN CubeRootBisect(mid, hi, x)
                         ELSE CubeRootBisect(lo, mid - 1, x)
    ELSE lo

int_cuberoot_u256(x) ==
    LET hi == CubeRootHi(1, x)
    IN CubeRootBisect(hi \div 2, hi, x)

\* Gamma(4/3) = 0.892979511 in Q fixed point, rounded
GAMMA_FP == (893 * (2 ^ Q) + 500) \div 1000

calculate_qscale_uint(block_time) ==
    LET block_scaled == block_time * (2 ^ (3 * Q))
        t_cbrt == int_cuberoot_u256(block_scaled)
        numerator == block_time * (2 ^ (2 * Q))
        denominator == (t_cbrt * GAMMA_FP) \div (2 ^ Q)
    IN (numerator + (denominator \div 2)) \div denominator

CalculateTimeBendedDeadline(quality, base_target, block_time) ==
    IF quality = 0 THEN 0
    ELSE LET SCALE_Q == calculate_qscale_uint(block_time)
             SHIFT_3P == 2 ^ (3 * P)
             V == (quality * SHIFT_3P) \div base_target
             r == int_cuberoot_u256(V)
             numer == SCALE_Q * r
             denom == 2 ^ (P + Q)
         IN (numer + (denom \div 2)) \div denom

(***************************************************************************)
(* params.cpp: genesis base target.                                        *)
(***************************************************************************)
CalculateGenesisBaseTarget(target_spacing_seconds, low_capacity_calibration) ==
    LET base_power == IF low_capacity_calibration THEN POWER_60 ELSE POWER_42
        genesis_base_target == base_power \div target_spacing_seconds
    IN IF genesis_base_target = 0 THEN 1 ELSE genesis_base_target

(***************************************************************************)
(* difficulty.cpp over a block index: a function from block hashes to      *)
(* CBlockIndex records.                                                    *)
(***************************************************************************)
\* nullptr of CBlockIndex*
NoBlock == 0 - 1

RECURSIVE GetAncestor(_, _, _)
GetAncestor(index, b, height) ==
    IF index[b].nHeight = height THEN b ELSE GetAncestor(index, index[b].pprev, height)

\* the host chain's 32-byte hash of (generation signature, account id),
\* collision free on the modelled values
HashGenSig(gensig, account) == gensig * 2 + account

\* difficulty.cpp:92-109
GetNextGenerationSignature(index, pindexLast) ==
    HashGenSig(index[pindexLast].generationSignature, index[pindexLast].account_id)

\* difficulty.cpp:56-61: the walk over the window, summing in uint64_t
RECURSIVE SumBaseTarget(_, _, _)
SumBaseTarget(index, walker, n) ==
    IF n = 0 \/ walker = NoBlock THEN 0
    ELSE (index[walker].nBaseTarget + SumBaseTarget(index, index[walker].pprev, n - 1))
             % UINT64_MOD

\* an adjustment without the cap at the genesis base target
GetNextBaseTargetUncapped(index, pindexLast, params) ==
    LET genesis_base_target ==
            CalculateGenesisBaseTarget(params.nPowTargetSpacing,
                                       params.fPoCXLowCapacityCalibration)
    IN IF index[pindexLast].nHeight = 0 THEN genesis_base_target
       ELSE LET prev_base_target == index[pindexLast].nBaseTarget
                lookback == Min(params.nPoCXRollingWindowSize, index[pindexLast].nHeight)
                pindexFirst == GetAncestor(index, pindexLast,
                                           index[pindexLast].nHeight - lookback + 1)
                target_timespan == lookback * params.nPowTargetSpacing
                min_timespan == IF target_timespan \div 2 = 0 THEN 1 ELSE target_timespan \div 2
                raw_timespan == index[pindexLast].nTime - index[pindexFirst].nTime
                low_timespan == Max(raw_timespan, min_timespan)
                actual_timespan == Min(low_timespan, target_timespan * 2)
                avg_base_target == SumBaseTarget(index, pindexLast, lookback) \div lookback
                new_base_target == ((avg_base_target * actual_timespan) % UINT64_MOD)
                                       \div target_timespan
                max_increase == (prev_base_target + (prev_base_target \div 5)) % UINT64_MOD
                max_decrease == prev_base_target - (prev_base_target \div 5)
                capped_up == Min(new_base_target, max_increase)
                capped_down == Max(capped_up, max_decrease)
            IN Max(capped_down, 1)

\* difficulty.cpp:18-89
GetNextBaseTarget(index, pindexLast, params) ==
    LET genesis_base_target ==
            CalculateGenesisBaseTarget(params.nPowTargetSpacing,
                                       params.fPoCXLowCapacityCalibration)
    IN IF index[pindexLast].nHeight = 0 THEN genesis_base_target
       ELSE LET prev_base_target == index[pindexLast].nBaseTarget
                lookback == Min(params.nPoCXRollingWindowSize, index[pindexLast].nHeight)
                pindexFirst == GetAncestor(index, pindexLast,
                                           index[pindexLast].nHeight - lookback + 1)
                target_timespan == lookback * params.nPowTargetSpacing
                min_timespan == IF target_timespan \div 2 = 0 THEN 1 ELSE target_timespan \div 2
                raw_timespan == index[pindexLast].nTime - index[pindexFirst].nTime
                low_timespan == Max(raw_timespan, min_timespan)
                actual_timespan == Min(low_timespan, target_timespan * 2)
                avg_base_target == SumBaseTarget(index, pindexLast, lookback) \div lookback
                new_base_target == ((avg_base_target * actual_timespan) % UINT64_MOD)
                                       \div target_timespan
                max_increase == (prev_base_target + (prev_base_target \div 5)) % UINT64_MOD
                max_decrease == prev_base_target - (prev_base_target \div 5)
                capped_up == Min(new_base_target, max_increase)
                capped_down == Max(capped_up, max_decrease)
                capped_genesis == Min(capped_down, genesis_base_target)
            IN Max(capped_genesis, 1)

(***************************************************************************)
(* The host chain's block index: a fixed tree of blocks the active tip     *)
(* moves over.  Block 0 is the genesis block and 1 its child; 2 and 3      *)
(* compete at height 2 on top of 1, forged by the same account at          *)
(* different times, so the contexts on top of them share height and        *)
(* generation signature and differ in base target.  Another account forges *)
(* a third block on top of 1: the context on top of it has the height and  *)
(* the base target of that on top of 2, and another generation signature.  *)
(***************************************************************************)
\* the block of the other account
RivalTip == 4

GenesisIndex ==
    0 :> [pprev |-> NoBlock, nHeight |-> 0, nTime |-> 0, account_id |-> 1, quality |-> 0,
          generationSignature |-> 0,
          nBaseTarget |-> CalculateGenesisBaseTarget(nPowTargetSpacing,
                                                     fPoCXLowCapacityCalibration)]

\* a connected block's header carries the context computed from its parent
ConnectBlock(index, b, parent, time, account, quality, params) ==
    index @@ (b :> [pprev |-> parent,
                    nHeight |-> index[parent].nHeight + 1,
                    nTime |-> time,
                    account_id |-> account,
                    quality |-> quality,
                    generationSignature |-> GetNextGenerationSignature(index, parent),
                    nBaseTarget |-> GetNextBaseTarget(index, parent, params)])

BlockIndex ==
    ConnectBlock(ConnectBlock(ConnectBlock(ConnectBlock(GenesisIndex,
        1, 0, 0, 1, 100, ConsensusParams),
        2, 1, 1, 1, 100, ConsensusParams),
        3, 1, 2, 1, 50, ConsensusParams),
        RivalTip, 1, 1, 2, 100, ConsensusParams)

Blocks == DOMAIN BlockIndex
pprev(b) == BlockIndex[b].pprev
BlockTime(b) == BlockIndex[b].nTime
BlockQuality(b) == BlockIndex[b].quality
BlockHeight(b) == BlockIndex[b].nHeight

\* difficulty.cpp:111-124, for every block that can be the tip
NewBlockContexts ==
    [b \in Blocks |->
        [height |-> BlockIndex[b].nHeight + 1,
         generation_signature |-> GetNextGenerationSignature(BlockIndex, b),
         base_target |-> GetNextBaseTarget(BlockIndex, b, ConsensusParams),
         block_hash |-> b]]

GetNewBlockContext(tip) == NewBlockContexts[tip]

\* the blocks the active chain can end in while the scheduler runs
Tips == Blocks \ {0, RivalTip}

\* a tip with a sibling of later time: the callers of SpecQueue and FairSpec
\* mine on it
QueueTip == CHOOSE b \in Tips : \E c \in Tips : c # b /\ pprev(c) = pprev(b) /\ BlockTime(b) < BlockTime(c)

(***************************************************************************)
(* Inputs of SubmitNonce.  Every call of a behaviour carries a fresh       *)
(* nonce, so that submissions can be told apart in the queue, in the       *)
(* candidate and in the forged blocks.                                     *)
(***************************************************************************)
Accounts == {1}
Seeds == {7}
Compressions == {1}
Qualities == {50, 100}

\* submission.h:18-34
NonceSubmission(acc_id, s, n, q, c, h, gs) ==
    [account_id |-> acc_id, seed |-> s, nonce |-> n, quality |-> q, compression |-> c,
     expected_height |-> h, generation_signature |-> gs]

NoSubmission == [nonce |-> 0]

\* the RPC worker threads that serve submit_nonce
RpcThreads == 1..2
NoForging == [nonce |-> 0]

\* plot and forging addresses (20-byte key hashes); NoAddress is no result
PlotAddresses == {1, 2}
ForgingAddresses == {3}
NoAddress == 0
\* std::optional<ForgingAssignment> without a value
NoAssignment == [plotAddress |-> NoAddress]

VARIABLES
    m_submission_queue,   \* std::queue<NonceSubmission>
    m_queue_mutex,        \* "free" or the thread holding it across steps
    cv_notified,          \* a notify reached the worker blocked in m_queue_cv
    m_current_forging,    \* std::unique_ptr<ForgingState>, NoForging when null
    m_shutdown,           \* std::atomic<bool>
    pc,                   \* the worker thread's position
    submission,           \* WorkerThreadFunc: the dequeued submission
    current_tip,          \* ProcessSubmission: the tip read under cs_main
    predicate_true,       \* WaitForDeadlineOrNewSubmission: result of wait_until
    final_queue_size,     \* WaitForDeadlineOrNewSubmission: queue size at wake
    sd_pc,                \* position of the thread calling Shutdown()
    tip,                  \* ChainstateManager::ActiveChain().Tip()
    now,                  \* std::chrono::system_clock
    nodeContextOk,        \* m_mining->context() and its chainman are non-null
    sink,                 \* blocks handed to ChainstateManager::ProcessNewBlock
    next_nonce,           \* number of SubmitNonce calls so far, plus one
    ret,                  \* what the latest SubmitNonce call returned ("none" before any)
    enqueued,             \* nonces SubmitNonce pushed, in push order
    dequeued,             \* nonces the worker popped, in pop order
    stale,                \* submissions ValidateContext rejected
    run,                  \* submissions evaluated since the candidate was last null
    forge_log,            \* ForgeBlock calls: candidate, path and outcome
    a_view,               \* CCoinsViewCache: plot address -> ForgingAssignment
    a_plot, a_height,     \* arguments of the latest assignment query
    a_signer, a_state,    \* its results
    script,               \* CTxOut::scriptPubKey handed to the OP_RETURN functions
    op_result,            \* what Is/Parse...OpReturn returned for it ([called |-> FALSE] before)
    own_tx, own_plot,     \* arguments of VerifyPlotOwnership: tx.vin and the plot
    own_result,           \* what it returned ("none" before the call)
    u_block, u_height,    \* the assignment payloads of a block and its height
    u_before,             \* the assignment records before the block was connected
    vforgingundo,         \* CBlockUndo::vforgingundo of the block
    u_pc,                 \* "none", "connected" or "disconnected"
    d_index,              \* a chain of CBlockIndex grown block by block
    d_params,             \* the Consensus::Params of that chain
    g_pocx_scheduler,     \* mining.cpp:37: 0 when null, else the instance it owns
    g_scheduler_init_mutex, \* mining.cpp:38: 0 when free, else the RPC thread holding it
    constructed,          \* PoCXScheduler instances constructed so far
    wallet_loader,        \* node.wallet_loader is non-null
    rpc_calls,            \* submit_nonce calls started so far
    rpc_pc,               \* each RPC thread's position in submit_nonce
    rpc_req,              \* its request
    rpc_res,              \* what its latest call answered
    f_in,                 \* a consensus or hash function called and its arguments
    f_out,                \* what it returned ([called |-> FALSE] before)
    fg_pc,                \* ForgeBlock: the position of the worker inside the call
    fg_forging,           \* ForgeBlock: the candidate it was called with
    fg_height,            \* ActiveChainstate().m_chain.Height()
    fg_wallet,            \* key ids the loaded wallets can sign for
    fg_payee,             \* BuildBlock: effective_signer_account
    fg_signer,            \* SignPoCXBlockWithAvailableWallet: effective_signer
    fg_block,             \* the CBlock being built and signed
    fg_final_hash,        \* SignPoCXBlock: final_hash handed to SignPoCXHash
    fg_sink               \* blocks SubmitForgedBlock handed to ProcessNewBlock

schedVars == <<m_submission_queue, m_queue_mutex, cv_notified, m_current_forging,
               m_shutdown, pc, submission, current_tip, predicate_true,
               final_queue_size, sd_pc, tip, now, nodeContextOk, sink, next_nonce,
               ret, enqueued, dequeued, stale, run, forge_log>>
assignVars == <<a_view, a_plot, a_height, a_signer, a_state>>
txVars == <<script, op_result, own_tx, own_plot, own_result,
            u_block, u_height, u_before, vforgingundo, u_pc>>
\* what the scheduler's threads never touch
chainVars == <<d_index, d_params>>
rpcVars == <<g_pocx_scheduler, g_scheduler_init_mutex, constructed, wallet_loader,
             rpc_calls, rpc_pc, rpc_req, rpc_res>>
fnVars == <<f_in, f_out>>
forgeVars == <<fg_pc, fg_forging, fg_height, fg_wallet, fg_payee, fg_signer, fg_block,
               fg_final_hash, fg_sink>>
otherVars == <<assignVars, txVars, chainVars, rpcVars, fnVars, forgeVars>>
vars == <<schedVars, otherVars>>

workerVars == <<m_current_forging, pc, submission, current_tip, predicate_true,
                final_queue_size, dequeued, stale, run, forge_log, sink>>

(***************************************************************************)
(* submission.cpp                                                          *)
(***************************************************************************)
\* a validator that forgets the generation signature
ValidateHeightOnly(sub, current_height, current_gen_sig) ==
    IF sub.expected_height # current_height THEN FALSE
    ELSE TRUE

ValidateContext(sub, current_height, current_gen_sig) ==
    IF sub.expected_height # current_height THEN FALSE
    ELSE IF sub.generation_signature # current_gen_sig THEN FALSE
    ELSE TRUE

\* a comparison that lets an equal quality win
IsBetterOrEqual(new_quality, has_value, current_best_quality) ==
    IF ~has_value THEN TRUE
    ELSE new_quality <= current_best_quality

\* current_best_quality is std::optional: has_value is passed alongside
IsBetterThanCurrent(new_quality, has_value, current_best_quality) ==
    IF ~has_value THEN TRUE
    ELSE new_quality < current_best_quality

(***************************************************************************)
(* m_queue_cv: a notify wakes the worker only if it is blocked in a wait.  *)
(***************************************************************************)
WorkerBlocked == pc = "idle_blocked" \/ pc = "wd_blocked"
Notify == cv_notified' = (cv_notified \/ WorkerBlocked)

\* m_shutdown.load() as the worker reads it at its decision points
ShutdownRequested == m_shutdown

(***************************************************************************)
(* Init: the state after PoCXScheduler's constructor, on any chain tip.    *)
(***************************************************************************)
\* no assignment record in the coins view and no assignment query made
AssignIdle ==
    /\ a_view = [p \in PlotAddresses |-> NoAssignment]
    /\ a_plot = NoAddress
    /\ a_height = 0
    /\ a_signer = NoAddress
    /\ a_state = "none"

\* no chain grown
ChainIdle == d_index = GenesisIndex /\ d_params = ConsensusParams

\* no function called
FnIdle == f_in = [fn |-> "none"] /\ f_out = [called |-> FALSE]

\* ForgeBlock not called
ForgeIdle ==
    /\ fg_pc = "idle"
    /\ fg_forging = NoForging
    /\ fg_height = 0
    /\ fg_wallet = {}
    /\ fg_payee = NoAddress
    /\ fg_signer = NoAddress
    /\ fg_block = [nHeight |-> 0]
    /\ fg_final_hash = <<>>
    /\ fg_sink = <<>>

\* no submit_nonce call made and no scheduler constructed
RpcIdle ==
    /\ g_pocx_scheduler = 0
    /\ g_scheduler_init_mutex = 0
    /\ constructed = 0
    /\ wallet_loader = FALSE
    /\ rpc_calls = 0
    /\ rpc_pc = [t \in RpcThreads |-> "idle"]
    /\ rpc_req = [t \in RpcThreads |-> NoSubmission]
    /\ rpc_res = [t \in RpcThreads |-> [kind |-> "none"]]

\* no script parsed, no ownership verified and no block of assignments
\* connected
TxIdle ==
    /\ script = <<>>
    /\ op_result = [called |-> FALSE]
    /\ own_tx = <<>>
    /\ own_plot = NoAddress
    /\ own_result = "none"
    /\ u_block = <<>>
    /\ u_height = 0
    /\ u_before = <<>>
    /\ vforgingundo = <<>>
    /\ u_pc = "none"

InitScheduler ==
    /\ m_submission_queue = <<>>
    /\ m_queue_mutex = "free"
    /\ cv_notified = FALSE
    /\ m_current_forging = NoForging
    /\ m_shutdown = FALSE
    /\ pc = "loop"
    /\ submission = NoSubmission
    /\ current_tip = NoBlock
    /\ predicate_true = FALSE
    /\ final_queue_size = 0
    /\ sd_pc = "idle"
    /\ tip \in Tips
    /\ nodeContextOk \in BOOLEAN
    /\ sink = <<>>
    /\ next_nonce = 1
    /\ ret = "none"
    /\ enqueued = <<>>
    /\ dequeued = <<>>
    /\ stale = {}
    /\ run = <<>>
    /\ forge_log = <<>>

Init == InitScheduler /\ now = 0 /\ AssignIdle /\ TxIdle /\ ChainIdle /\ RpcIdle /\ FnIdle /\ ForgeIdle

(***************************************************************************)
(* scheduler.cpp:33-68  SubmitNonce, called from any RPC thread.  The      *)
(* critical section is one step; it needs the queue mutex.                 *)
(***************************************************************************)
QueuePush(queue, sub) == Append(queue, sub)

\* a capacity test that is off by one
SubmitNonceOffByOne(account_id, seed, nonce, quality, compression, height, generation_signature) ==
    LET sub == NonceSubmission(account_id, seed, nonce, quality, compression,
                               height, generation_signature)
    IN /\ m_queue_mutex = "free"
       /\ next_nonce' = next_nonce + 1
       /\ IF Len(m_submission_queue) > MAX_QUEUE_SIZE
          THEN /\ ret' = "false"
               /\ UNCHANGED <<m_submission_queue, enqueued, cv_notified>>
          ELSE /\ m_submission_queue' = QueuePush(m_submission_queue, sub)
               /\ enqueued' = Append(enqueued, nonce)
               /\ Notify
               /\ ret' = "true"
       /\ UNCHANGED <<m_queue_mutex, m_shutdown, sd_pc, tip, now, nodeContextOk>>
       /\ UNCHANGED workerVars
       /\ UNCHANGED <<assignVars, txVars, chainVars, fnVars, forgeVars>>

\* a push that does not take the queue mutex
SubmitNonceUnlocked(account_id, seed, nonce, quality, compression, height, generation_signature) ==
    LET sub == NonceSubmission(account_id, seed, nonce, quality, compression,
                               height, generation_signature)
    IN /\ next_nonce' = next_nonce + 1
       /\ IF Len(m_submission_queue) >= MAX_QUEUE_SIZE
          THEN /\ ret' = "false"
               /\ UNCHANGED <<m_submission_queue, enqueued, cv_notified>>
          ELSE /\ m_submission_queue' = QueuePush(m_submission_queue, sub)
               /\ enqueued' = Append(enqueued, nonce)
               /\ Notify
               /\ ret' = "true"
       /\ UNCHANGED <<m_queue_mutex, m_shutdown, sd_pc, tip, now, nodeContextOk>>
       /\ UNCHANGED workerVars
       /\ UNCHANGED <<assignVars, txVars, chainVars, fnVars, forgeVars>>

SubmitNonce(account_id, seed, nonce, quality, compression, height, generation_signature) ==
    LET sub == NonceSubmission(account_id, seed, nonce, quality, compression,
                               height, generation_signature)
    IN /\ m_queue_mutex = "free"
       /\ next_nonce' = next_nonce + 1
       /\ IF Len(m_submission_queue) >= MAX_QUEUE_SIZE
          THEN /\ ret' = "false"
               /\ UNCHANGED <<m_submission_queue, enqueued, cv_notified>>
          ELSE /\ m_submission_queue' = QueuePush(m_submission_queue, sub)
               /\ enqueued' = Append(enqueued, nonce)
               /\ Notify
               /\ ret' = "true"
       /\ UNCHANGED <<m_queue_mutex, m_shutdown, sd_pc, tip, now, nodeContextOk>>
       /\ UNCHANGED workerVars
       /\ UNCHANGED <<assignVars, txVars, chainVars, fnVars, forgeVars>>

\* A caller states a height and a generation signature: those of the next
\* block on some block of `known`, not necessarily the same block for both
\* (the signature may belong to a later block than the height does).
RpcSubmitUpTo(calls, known) ==
    /\ next_nonce <= calls
    /\ \E a \in Accounts, s \in Seeds, q \in Qualities, c \in Compressions,
          hb \in known, gb \in known :
           /\ BlockHeight(hb) <= BlockHeight(gb)
           /\ SubmitNonce(a, s, next_nonce, q, c, GetNewBlockContext(hb).height,
                          GetNewBlockContext(gb).generation_signature)
    /\ UNCHANGED rpcVars

RpcSubmit == RpcSubmitUpTo(MaxSubmissions, Tips)

(***************************************************************************)
(* scheduler.cpp:70-86  Shutdown.                                          *)
(***************************************************************************)
\* m_shutdown.exchange(true): the first caller goes on to notify and join
ShutdownExchange ==
    /\ sd_pc = "idle"
    /\ ~m_shutdown
    /\ m_shutdown' = TRUE
    /\ sd_pc' = "notify"
    /\ UNCHANGED <<m_submission_queue, m_queue_mutex, cv_notified, tip, now,
                   nodeContextOk, next_nonce, ret, enqueued>>
    /\ UNCHANGED workerVars
    /\ UNCHANGED otherVars

\* m_queue_cv.notify_all(), without the queue mutex
ShutdownNotify ==
    /\ sd_pc = "notify"
    /\ Notify
    /\ sd_pc' = "join"
    /\ UNCHANGED <<m_submission_queue, m_queue_mutex, m_shutdown, tip, now,
                   nodeContextOk, next_nonce, ret, enqueued>>
    /\ UNCHANGED workerVars
    /\ UNCHANGED otherVars

\* m_worker_thread.join() returns once the worker function has returned
ShutdownJoin ==
    /\ sd_pc = "join"
    /\ pc = "stopped"
    /\ sd_pc' = "done"
    /\ UNCHANGED <<m_submission_queue, m_queue_mutex, cv_notified, m_shutdown, tip, now,
                   nodeContextOk, next_nonce, ret, enqueued>>
    /\ UNCHANGED workerVars
    /\ UNCHANGED otherVars

(***************************************************************************)
(* The environment: the host chain connects a block or reorganises, and    *)
(* the system clock advances.                                              *)
(***************************************************************************)
ChainTipChange ==
    /\ \E b \in Tips :
          /\ b # tip
          /\ BlockHeight(b) >= BlockHeight(tip)
          /\ tip' = b
    /\ UNCHANGED <<m_submission_queue, m_queue_mutex, cv_notified, m_shutdown, sd_pc, now,
                   nodeContextOk, next_nonce, ret, enqueued>>
    /\ UNCHANGED workerVars
    /\ UNCHANGED otherVars

\* the chain reorganises to the block of the other account
ChainTipRival ==
    /\ tip # RivalTip
    /\ BlockHeight(RivalTip) >= BlockHeight(tip)
    /\ tip' = RivalTip
    /\ UNCHANGED <<m_submission_queue, m_queue_mutex, cv_notified, m_shutdown, sd_pc, now,
                   nodeContextOk, next_nonce, ret, enqueued>>
    /\ UNCHANGED workerVars
    /\ UNCHANGED otherVars

Tick ==
    /\ \/ now < MaxTime
       \/ m_current_forging # NoForging /\ now < m_current_forging.forge_time
    /\ now' = now + 1
    /\ UNCHANGED <<m_submission_queue, m_queue_mutex, cv_notified, m_shutdown, sd_pc, tip,
                   nodeContextOk, next_nonce, ret, enqueued>>
    /\ UNCHANGED workerVars
    /\ UNCHANGED otherVars

(***************************************************************************)
(* The worker thread.  pc names the statement it executes next; a step is  *)
(* a critical section of the queue mutex, a read of the chain under        *)
(* cs_main, or a call into the host chain.                                 *)
(***************************************************************************)
envVars == <<m_shutdown, sd_pc, tip, now, nodeContextOk, next_nonce, ret, enqueued>>

\* a queue read from the wrong end
QueueBack(queue) == queue[Len(queue)]

QueueFront(queue) == Head(queue)
QueuePop(queue) == Tail(queue)

HasForging == m_current_forging # NoForging
Cancelled == HasForging /\ m_current_forging.cancelled

\* scheduler.cpp:90  while (!m_shutdown.load())
WorkerLoop ==
    /\ pc = "loop"
    /\ pc' = IF ShutdownRequested THEN "stopped" ELSE "dequeue"
    /\ UNCHANGED <<m_submission_queue, m_queue_mutex, cv_notified, m_current_forging,
                   submission, current_tip, predicate_true, final_queue_size, sink,
                   dequeued, stale, run, forge_log>>
    /\ UNCHANGED envVars
    /\ UNCHANGED otherVars

\* scheduler.cpp:95-116  pop under the mutex, or choose which wait to enter
WorkerDequeue ==
    /\ pc = "dequeue"
    /\ m_queue_mutex = "free"
    /\ IF m_submission_queue # <<>>
       THEN /\ submission' = QueueFront(m_submission_queue)
            /\ m_submission_queue' = QueuePop(m_submission_queue)
            /\ dequeued' = Append(dequeued, QueueFront(m_submission_queue).nonce)
            /\ pc' = "ps_tip"
       ELSE /\ pc' = IF HasForging /\ ~Cancelled THEN "wd_check" ELSE "idle_check"
            /\ UNCHANGED <<submission, m_submission_queue, dequeued>>
    /\ UNCHANGED <<m_queue_mutex, cv_notified, m_current_forging, current_tip,
                   predicate_true, final_queue_size, sink, stale, run, forge_log>>
    /\ UNCHANGED envVars
    /\ UNCHANGED otherVars

\* scheduler.cpp:118-120  predicate of the idle wait
IdlePredicate == m_submission_queue # <<>> \/ ShutdownRequested

\* scheduler.cpp:117-120  wait_for: lock, test the predicate
IdleCheck ==
    /\ pc = "idle_check"
    /\ m_queue_mutex = "free"
    /\ IF IdlePredicate
       THEN pc' = "post_wait" /\ UNCHANGED m_queue_mutex
       ELSE pc' = "idle_enter" /\ m_queue_mutex' = "worker"
    /\ UNCHANGED <<m_submission_queue, cv_notified, m_current_forging, submission,
                   current_tip, predicate_true, final_queue_size, sink, dequeued, stale,
                   run, forge_log>>
    /\ UNCHANGED envVars
    /\ UNCHANGED otherVars

\* wait_for: release the mutex and block, atomically
IdleBlock ==
    /\ pc = "idle_enter"
    /\ pc' = "idle_blocked"
    /\ m_queue_mutex' = "free"
    /\ cv_notified' = FALSE
    /\ UNCHANGED <<m_submission_queue, m_current_forging, submission, current_tip,
                   predicate_true, final_queue_size, sink, dequeued, stale, run, forge_log>>
    /\ UNCHANGED envVars
    /\ UNCHANGED otherVars

\* an idle wait without the heartbeat: wait() in place of wait_for()
IdleWakeNoTimeout(reason) ==
    /\ pc = "idle_blocked"
    /\ m_queue_mutex = "free"
    /\ reason # "timeout"
    /\ reason = "notify" => cv_notified
    /\ IF IdlePredicate
       THEN pc' = "post_wait" /\ UNCHANGED m_queue_mutex
       ELSE pc' = "idle_enter" /\ m_queue_mutex' = "worker"
    /\ cv_notified' = FALSE
    /\ UNCHANGED <<m_submission_queue, m_current_forging, submission, current_tip,
                   predicate_true, final_queue_size, sink, dequeued, stale, run, forge_log>>
    /\ UNCHANGED envVars
    /\ UNCHANGED otherVars

\* wait_for: woken by a notify, by the 30 s heartbeat or spuriously; relock
\* and test the predicate again
IdleWakeBy(reason) ==
    /\ pc = "idle_blocked"
    /\ m_queue_mutex = "free"
    /\ reason = "notify" => cv_notified
    /\ IF IdlePredicate \/ reason = "timeout"
       THEN pc' = "post_wait" /\ UNCHANGED m_queue_mutex
       ELSE pc' = "idle_enter" /\ m_queue_mutex' = "worker"
    /\ cv_notified' = FALSE
    /\ UNCHANGED <<m_submission_queue, m_current_forging, submission, current_tip,
                   predicate_true, final_queue_size, sink, dequeued, stale, run, forge_log>>
    /\ UNCHANGED envVars
    /\ UNCHANGED otherVars

IdleWake == IdleWakeBy("notify") \/ IdleWakeBy("timeout") \/ IdleWakeBy("spurious")

\* scheduler.cpp:123-125
PostWait ==
    /\ pc = "post_wait"
    /\ pc' = IF ShutdownRequested THEN "stopped" ELSE "loop"
    /\ UNCHANGED <<m_submission_queue, m_queue_mutex, cv_notified, m_current_forging,
                   submission, current_tip, predicate_true, final_queue_size, sink,
                   dequeued, stale, run, forge_log>>
    /\ UNCHANGED envVars
    /\ UNCHANGED otherVars

(***************************************************************************)
(* scheduler.cpp:309-391  ForgeBlock and SubmitForgedBlock.  The template  *)
(* comes from the host chain and is built on the tip of that moment;       *)
(* whether parsing/template creation, signing and ProcessNewBlock succeed  *)
(* is the environment's choice.                                            *)
(***************************************************************************)
BuildBlock(cand, tipNow) ==
    [hashPrevBlock |-> tipNow,
     nHeight |-> GetNewBlockContext(tipNow).height,
     generationSignature |-> GetNewBlockContext(tipNow).generation_signature,
     account_id |-> cand.account_id,
     seed |-> cand.seed,
     nonce |-> cand.nonce,
     quality |-> cand.quality,
     compression |-> cand.compression]

ForgeResult(build_ok, sign_ok, accepted) ==
    IF ~HasForging THEN "no_state"
    ELSE IF ~nodeContextOk THEN "no_context"
    ELSE IF ~build_ok THEN "build_failed"
    ELSE IF ~sign_ok THEN "sign_failed"
    ELSE IF accepted THEN "accepted"
    ELSE "rejected"

\* a block that reaches ProcessNewBlock though signing failed
ReachesSinkUnsigned(result) ==
    result = "accepted" \/ result = "rejected" \/ result = "sign_failed"

\* the block reaches ProcessNewBlock exactly when it was built and signed
ReachesSink(result) == result = "accepted" \/ result = "rejected"

ForgeBlock(path, build_ok, sign_ok, accepted) ==
    LET result == ForgeResult(build_ok, sign_ok, accepted)
    IN /\ sink' = IF ReachesSink(result)
                  THEN Append(sink, BuildBlock(m_current_forging, tip))
                  ELSE sink
       /\ forge_log' = Append(forge_log, [nonce |-> m_current_forging.nonce,
                                          path |-> path, result |-> result])

(***************************************************************************)
(* scheduler.cpp:131-208  ProcessSubmission.                               *)
(***************************************************************************)
\* lines 133-150: node context, then tip hash and time under cs_main
PsTip ==
    /\ pc = "ps_tip"
    /\ IF ~nodeContextOk
       THEN /\ pc' = "loop"
            /\ submission' = NoSubmission
            /\ UNCHANGED current_tip
       ELSE /\ current_tip' = tip
            /\ pc' = IF HasForging /\ m_current_forging.tip_block_hash # tip
                     THEN "ps_def" ELSE "ps_ctx"
            /\ UNCHANGED submission
    /\ UNCHANGED <<m_submission_queue, m_queue_mutex, cv_notified, m_current_forging,
                   predicate_true, final_queue_size, sink, dequeued, stale, run, forge_log>>
    /\ UNCHANGED envVars
    /\ UNCHANGED otherVars

\* a defensive forge also for a candidate of the arriving block's quality
DefensiveForgeOnEqual(cand, new_tip) ==
    IF pprev(new_tip) # cand.tip_block_hash THEN FALSE
    ELSE cand.quality <= BlockQuality(new_tip)

\* scheduler.cpp:393-405
DefensiveForgeNeeded(cand, new_tip) ==
    IF pprev(new_tip) # cand.tip_block_hash THEN FALSE
    ELSE cand.quality < BlockQuality(new_tip)

\* lines 152-156: CheckDefensiveForging, then drop the candidate
PsDefensive ==
    /\ pc = "ps_def"
    /\ IF DefensiveForgeNeeded(m_current_forging, current_tip)
       THEN \E build_ok \in BOOLEAN, sign_ok \in BOOLEAN, accepted \in BOOLEAN :
                ForgeBlock("defensive", build_ok, sign_ok, accepted)
       ELSE UNCHANGED <<sink, forge_log>>
    /\ m_current_forging' = NoForging
    /\ run' = <<>>
    /\ pc' = "ps_ctx"
    /\ UNCHANGED <<m_submission_queue, m_queue_mutex, cv_notified, submission, current_tip,
                   predicate_true, final_queue_size, dequeued, stale>>
    /\ UNCHANGED envVars
    /\ UNCHANGED otherVars

\* lines 186-203: the new ForgingState
NewForgingState(sub, ctx, tip_hash, block_time, deadline_seconds) ==
    [account_id |-> sub.account_id,
     seed |-> sub.seed,
     nonce |-> sub.nonce,
     quality |-> sub.quality,
     compression |-> sub.compression,
     deadline_seconds |-> deadline_seconds,
     base_target |-> ctx.base_target,
     height |-> ctx.height,
     generation_sig |-> ctx.generation_signature,
     tip_block_hash |-> tip_hash,
     cancelled |-> FALSE,
     block_time |-> block_time,
     forge_time |-> block_time + deadline_seconds]

\* lines 158-203: context under cs_main again, staleness, comparison, install
PsEvaluate ==
    /\ pc = "ps_ctx"
    /\ LET current_context == GetNewBlockContext(tip)
           deadline_seconds == CalculateTimeBendedDeadline(submission.quality,
                                   current_context.base_target, nPowTargetSpacing)
       IN IF ~ValidateContext(submission, current_context.height,
                              current_context.generation_signature)
          THEN /\ stale' = stale \cup {submission}
               /\ UNCHANGED <<m_current_forging, run, cv_notified>>
          ELSE /\ run' = Append(run, [nonce |-> submission.nonce,
                                      quality |-> submission.quality])
               /\ UNCHANGED stale
               /\ IF ~IsBetterThanCurrent(submission.quality, HasForging,
                                          IF HasForging THEN m_current_forging.quality ELSE 0)
                  THEN UNCHANGED <<m_current_forging, cv_notified>>
                  ELSE /\ IF HasForging THEN Notify ELSE UNCHANGED cv_notified
                       /\ m_current_forging' =
                              NewForgingState(submission, current_context, current_tip,
                                              BlockTime(current_tip), deadline_seconds)
    /\ submission' = NoSubmission
    /\ current_tip' = NoBlock
    /\ pc' = "loop"
    /\ UNCHANGED <<m_submission_queue, m_queue_mutex, predicate_true, final_queue_size,
                   sink, dequeued, forge_log>>
    /\ UNCHANGED envVars
    /\ UNCHANGED otherVars

(***************************************************************************)
(* scheduler.cpp:210-307  WaitForDeadlineOrNewSubmission.                  *)
(***************************************************************************)
\* lines 225-228: predicate of the deadline wait
DeadlinePredicate == ShutdownRequested \/ m_submission_queue # <<>> \/ Cancelled

\* lines 224-230: wait_until: lock, test the predicate
WdCheck ==
    /\ pc = "wd_check"
    /\ m_queue_mutex = "free"
    /\ IF DeadlinePredicate
       THEN /\ predicate_true' = TRUE
            /\ final_queue_size' = Len(m_submission_queue)
            /\ pc' = "wd_post"
            /\ UNCHANGED m_queue_mutex
       ELSE /\ pc' = "wd_enter"
            /\ m_queue_mutex' = "worker"
            /\ UNCHANGED <<predicate_true, final_queue_size>>
    /\ UNCHANGED <<m_submission_queue, cv_notified, m_current_forging, submission,
                   current_tip, sink, dequeued, stale, run, forge_log>>
    /\ UNCHANGED envVars
    /\ UNCHANGED otherVars

\* wait_until: release the mutex and block, atomically
WdBlock ==
    /\ pc = "wd_enter"
    /\ pc' = "wd_blocked"
    /\ m_queue_mutex' = "free"
    /\ cv_notified' = FALSE
    /\ UNCHANGED <<m_submission_queue, m_current_forging, submission, current_tip,
                   predicate_true, final_queue_size, sink, dequeued, stale, run, forge_log>>
    /\ UNCHANGED envVars
    /\ UNCHANGED otherVars

\* the system clock has reached the candidate's forge_time
DeadlineReached == now >= m_current_forging.forge_time

\* a wait whose timeout can end it before forge_time
WdWakeByEarlyTimeout(reason) ==
    /\ pc = "wd_blocked"
    /\ m_queue_mutex = "free"
    /\ reason = "notify" => cv_notified
    /\ IF DeadlinePredicate \/ reason = "timeout"
       THEN /\ predicate_true' = DeadlinePredicate
            /\ final_queue_size' = Len(m_submission_queue)
            /\ pc' = "wd_post"
            /\ UNCHANGED m_queue_mutex
       ELSE /\ pc' = "wd_enter"
            /\ m_queue_mutex' = "worker"
            /\ UNCHANGED <<predicate_true, final_queue_size>>
    /\ cv_notified' = FALSE
    /\ UNCHANGED <<m_submission_queue, m_current_forging, submission, current_tip,
                   sink, dequeued, stale, run, forge_log>>
    /\ UNCHANGED envVars
    /\ UNCHANGED otherVars

\* a wait that only a notify or a spurious wakeup ends, and only into a true
\* predicate
WdWakeByNoTimeout(reason) ==
    /\ pc = "wd_blocked"
    /\ m_queue_mutex = "free"
    /\ reason = "notify" => cv_notified
    /\ reason # "timeout"
    /\ IF DeadlinePredicate
       THEN /\ predicate_true' = DeadlinePredicate
            /\ final_queue_size' = Len(m_submission_queue)
            /\ pc' = "wd_post"
            /\ UNCHANGED m_queue_mutex
       ELSE /\ pc' = "wd_enter"
            /\ m_queue_mutex' = "worker"
            /\ UNCHANGED <<predicate_true, final_queue_size>>
    /\ cv_notified' = FALSE
    /\ UNCHANGED <<m_submission_queue, m_current_forging, submission, current_tip,
                   sink, dequeued, stale, run, forge_log>>
    /\ UNCHANGED envVars
    /\ UNCHANGED otherVars

\* a wait whose lock scope extends over the validation that follows it
WdWakeByHoldingMutex(reason) ==
    /\ pc = "wd_blocked"
    /\ m_queue_mutex = "free"
    /\ reason = "notify" => cv_notified
    /\ reason = "timeout" => DeadlineReached
    /\ IF DeadlinePredicate \/ DeadlineReached
       THEN /\ predicate_true' = DeadlinePredicate
            /\ final_queue_size' = Len(m_submission_queue)
            /\ pc' = "wd_post"
            /\ m_queue_mutex' = "worker"
       ELSE /\ pc' = "wd_enter"
            /\ m_queue_mutex' = "worker"
            /\ UNCHANGED <<predicate_true, final_queue_size>>
    /\ cv_notified' = FALSE
    /\ UNCHANGED <<m_submission_queue, m_current_forging, submission, current_tip,
                   sink, dequeued, stale, run, forge_log>>
    /\ UNCHANGED envVars
    /\ UNCHANGED otherVars

\* wait_until: woken by a notify, by the clock reaching forge_time or
\* spuriously; relock and test the predicate again.  A wake at or after
\* forge_time reports the timeout whatever caused it, and wait_until returns
\* the predicate's value
WdWakeBy(reason) ==
    /\ pc = "wd_blocked"
    /\ m_queue_mutex = "free"
    /\ reason = "notify" => cv_notified
    /\ reason = "timeout" => DeadlineReached
    /\ IF DeadlinePredicate \/ DeadlineReached
       THEN /\ predicate_true' = DeadlinePredicate
            /\ final_queue_size' = Len(m_submission_queue)
            /\ pc' = "wd_post"
            /\ UNCHANGED m_queue_mutex
       ELSE /\ pc' = "wd_enter"
            /\ m_queue_mutex' = "worker"
            /\ UNCHANGED <<predicate_true, final_queue_size>>
    /\ cv_notified' = FALSE
    /\ UNCHANGED <<m_submission_queue, m_current_forging, submission, current_tip,
                   sink, dequeued, stale, run, forge_log>>
    /\ UNCHANGED envVars
    /\ UNCHANGED otherVars

WdWake == WdWakeBy("notify") \/ WdWakeBy("timeout") \/ WdWakeBy("spurious")

\* lines 232-245: why did the wait end
WdPost ==
    /\ pc = "wd_post"
    /\ pc' = IF ShutdownRequested THEN "post_wait"
             ELSE IF final_queue_size > 0 THEN "post_wait"
             ELSE IF Cancelled THEN "post_wait"
             ELSE IF ~predicate_true THEN "wd_ctx"
             ELSE "post_wait"
    /\ predicate_true' = FALSE
    /\ final_queue_size' = 0
    /\ UNCHANGED <<m_submission_queue, m_queue_mutex, cv_notified, m_current_forging,
                   submission, current_tip, sink, dequeued, stale, run, forge_log>>
    /\ UNCHANGED envVars
    /\ UNCHANGED otherVars

\* the validation at the deadline without the test of the generation signature
WdContextHeightOnly ==
    /\ pc = "wd_ctx"
    /\ LET current_context == GetNewBlockContext(tip)
       IN IF ~nodeContextOk
          THEN m_current_forging' = NoForging /\ run' = <<>> /\ pc' = "post_wait"
          ELSE IF m_current_forging.height # current_context.height
          THEN m_current_forging' = NoForging /\ run' = <<>> /\ pc' = "post_wait"
          ELSE IF m_current_forging.base_target # current_context.base_target
          THEN /\ m_current_forging' =
                     [m_current_forging EXCEPT
                        !.deadline_seconds =
                            CalculateTimeBendedDeadline(m_current_forging.quality,
                                current_context.base_target, nPowTargetSpacing),
                        !.base_target = current_context.base_target]
               /\ pc' = "wd_retime"
               /\ UNCHANGED run
          ELSE /\ pc' = "wd_forge"
               /\ UNCHANGED <<m_current_forging, run>>
    /\ UNCHANGED <<m_submission_queue, m_queue_mutex, cv_notified, submission, current_tip,
                   predicate_true, final_queue_size, sink, dequeued, stale, forge_log>>
    /\ UNCHANGED envVars
    /\ UNCHANGED otherVars

\* lines 247-279: the deadline was reached; validate the candidate against
\* the context of the present tip
WdContext ==
    /\ pc = "wd_ctx"
    /\ LET current_context == GetNewBlockContext(tip)
       IN IF ~nodeContextOk
          THEN m_current_forging' = NoForging /\ run' = <<>> /\ pc' = "post_wait"
          ELSE IF m_current_forging.height # current_context.height
          THEN m_current_forging' = NoForging /\ run' = <<>> /\ pc' = "post_wait"
          ELSE IF m_current_forging.generation_sig # current_context.generation_signature
          THEN m_current_forging' = NoForging /\ run' = <<>> /\ pc' = "post_wait"
          ELSE IF m_current_forging.base_target # current_context.base_target
          THEN /\ m_current_forging' =
                     [m_current_forging EXCEPT
                        !.deadline_seconds =
                            CalculateTimeBendedDeadline(m_current_forging.quality,
                                current_context.base_target, nPowTargetSpacing),
                        !.base_target = current_context.base_target]
               /\ pc' = "wd_retime"
               /\ UNCHANGED run
          ELSE /\ pc' = "wd_forge"
               /\ UNCHANGED <<m_current_forging, run>>
    /\ UNCHANGED <<m_submission_queue, m_queue_mutex, cv_notified, submission, current_tip,
                   predicate_true, final_queue_size, sink, dequeued, stale, forge_log>>
    /\ UNCHANGED envVars
    /\ UNCHANGED otherVars

\* a recomputation from the block time stored with the candidate
WdRetimeStoredBlockTime ==
    /\ pc = "wd_retime"
    /\ m_current_forging' =
           [m_current_forging EXCEPT
              !.forge_time = m_current_forging.block_time + m_current_forging.deadline_seconds]
    /\ pc' = "post_wait"
    /\ UNCHANGED <<m_submission_queue, m_queue_mutex, cv_notified, submission, current_tip,
                   predicate_true, final_queue_size, sink, dequeued, stale, run, forge_log>>
    /\ UNCHANGED envVars
    /\ UNCHANGED otherVars

\* lines 280-292: the tip's time under cs_main, and the new forge_time
WdRetime ==
    /\ pc = "wd_retime"
    /\ m_current_forging' =
           [m_current_forging EXCEPT
              !.forge_time = BlockTime(tip) + m_current_forging.deadline_seconds]
    /\ pc' = "post_wait"
    /\ UNCHANGED <<m_submission_queue, m_queue_mutex, cv_notified, submission, current_tip,
                   predicate_true, final_queue_size, sink, dequeued, stale, run, forge_log>>
    /\ UNCHANGED envVars
    /\ UNCHANGED otherVars

\* a forge that leaves the candidate installed
WdForgeKeepsCandidate ==
    /\ pc = "wd_forge"
    /\ \E build_ok \in BOOLEAN, sign_ok \in BOOLEAN, accepted \in BOOLEAN :
           ForgeBlock("timed", build_ok, sign_ok, accepted)
    /\ pc' = "post_wait"
    /\ UNCHANGED <<m_submission_queue, m_queue_mutex, cv_notified, submission, current_tip,
                   predicate_true, final_queue_size, dequeued, stale, m_current_forging, run>>
    /\ UNCHANGED envVars
    /\ UNCHANGED otherVars

\* a failed forge that keeps its candidate for another attempt
WdForgeRetriesOnFailure ==
    /\ pc = "wd_forge"
    /\ \E build_ok \in BOOLEAN, sign_ok \in BOOLEAN, accepted \in BOOLEAN :
           /\ ForgeBlock("timed", build_ok, sign_ok, accepted)
           /\ IF ForgeResult(build_ok, sign_ok, accepted) = "accepted"
              THEN m_current_forging' = NoForging /\ run' = <<>>
              ELSE UNCHANGED <<m_current_forging, run>>
    /\ pc' = "post_wait"
    /\ UNCHANGED <<m_submission_queue, m_queue_mutex, cv_notified, submission, current_tip,
                   predicate_true, final_queue_size, dequeued, stale>>
    /\ UNCHANGED envVars
    /\ UNCHANGED otherVars

\* lines 295-305: forge, then drop the candidate whatever the outcome
WdForge ==
    /\ pc = "wd_forge"
    /\ \E build_ok \in BOOLEAN, sign_ok \in BOOLEAN, accepted \in BOOLEAN :
           ForgeBlock("timed", build_ok, sign_ok, accepted)
    /\ m_current_forging' = NoForging
    /\ run' = <<>>
    /\ pc' = "post_wait"
    /\ UNCHANGED <<m_submission_queue, m_queue_mutex, cv_notified, submission, current_tip,
                   predicate_true, final_queue_size, dequeued, stale>>
    /\ UNCHANGED envVars
    /\ UNCHANGED otherVars

Worker ==
    \/ WorkerLoop \/ WorkerDequeue \/ IdleCheck \/ IdleBlock \/ IdleWake \/ PostWait
    \/ PsTip \/ PsDefensive \/ PsEvaluate
    \/ WdCheck \/ WdBlock \/ WdWake \/ WdPost \/ WdContext \/ WdRetime \/ WdForge

Next ==
    \/ RpcSubmit
    \/ ShutdownExchange \/ ShutdownNotify \/ ShutdownJoin
    \/ ChainTipChange \/ ChainTipRival \/ Tick
    \/ Worker

Spec == Init /\ [][Next]_vars

(***************************************************************************)
(* FairSpec: the operating system runs the worker thread and the thread    *)
(* inside Shutdown() whenever they can take a step, and the clock          *)
(* advances.  A blocked wait is only certain to end by a notify or by its  *)
(* timeout: no fairness is assumed of spurious wakeups.                    *)
(***************************************************************************)
WorkerProgress ==
    \/ WorkerLoop \/ WorkerDequeue \/ IdleCheck \/ IdleBlock \/ PostWait
    \/ IdleWakeBy("notify") \/ IdleWakeBy("timeout")
    \/ PsTip \/ PsDefensive \/ PsEvaluate
    \/ WdCheck \/ WdBlock \/ WdPost \/ WdContext \/ WdRetime \/ WdForge
    \/ WdWakeBy("notify") \/ WdWakeBy("timeout")

\* the callers all mine on one block of the tree
RpcSubmitFair == RpcSubmitUpTo(MaxSubmissions, {QueueTip})

NextFair ==
    \/ RpcSubmitFair
    \/ ShutdownExchange \/ ShutdownNotify \/ ShutdownJoin
    \/ ChainTipChange \/ Tick
    \/ Worker

FairSpec ==
    /\ Init /\ [][NextFair]_vars
    /\ WF_vars(WorkerProgress)
    /\ WF_vars(ShutdownNotify)
    /\ WF_vars(ShutdownJoin)
    /\ WF_vars(Tick)

(***************************************************************************)
(* SpecQueue: the same threads and chain with more SubmitNonce calls than  *)
(* the queue holds.  The callers all mine at height 3; the clock stands    *)
(* still, either before every deadline or after every deadline.            *)
(***************************************************************************)
InitQueue == InitScheduler /\ now \in {0, MaxTime} /\ AssignIdle /\ TxIdle /\ ChainIdle /\ RpcIdle /\ FnIdle /\ ForgeIdle

RpcSubmitQueue == RpcSubmitUpTo(MaxQueueSubmissions, {QueueTip})

NextQueue ==
    \/ RpcSubmitQueue
    \/ ShutdownExchange \/ ShutdownNotify \/ ShutdownJoin
    \/ ChainTipChange
    \/ Worker

SpecQueue == InitQueue /\ [][NextQueue]_vars

(***************************************************************************)
(* Forging assignments.  The record type ForgingAssignment and the coins   *)
(* view's lookup are declared in coins.h of the host chain; the derived    *)
(* state and activity follow the design document's table.                  *)
(***************************************************************************)
ForgingAssignment(plot, forging, effective, is_revoked, revocation_effective) ==
    [plotAddress |-> plot,
     forgingAddress |-> forging,
     assignment_effective_height |-> effective,
     revoked |-> is_revoked,
     revocation_effective_height |-> revocation_effective]

\* the records a plot can have at heights 0..MaxHeight
AssignmentsOf(plot) ==
    {ForgingAssignment(plot, f, e, FALSE, 0) :
         f \in ForgingAddresses, e \in 1..(MaxHeight - 1)}
    \cup {ForgingAssignment(plot, f, e, TRUE, r) :
              f \in ForgingAddresses, e \in {1, MaxHeight - 1}, r \in {2, MaxHeight}}

CoinsViews == {v \in [PlotAddresses -> UNION {AssignmentsOf(p) : p \in PlotAddresses}
                                        \cup {NoAssignment}] :
                   \A p \in PlotAddresses : v[p] = NoAssignment \/ v[p].plotAddress = p}

\* CCoinsViewCache::GetForgingAssignment: the record stored for the plot
GetForgingAssignment(view, plotAddress, nHeight) ==
    IF plotAddress \in DOMAIN view THEN view[plotAddress] ELSE NoAssignment

has_value(assignment) == assignment # NoAssignment

\* a derivation with the effective-height comparison turned around
GetStateAtHeightReversed(assignment, height) ==
    IF ~assignment.revoked
    THEN IF height > assignment.assignment_effective_height THEN "ASSIGNING" ELSE "ASSIGNED"
    ELSE IF height < assignment.revocation_effective_height THEN "REVOKING" ELSE "REVOKED"

\* ForgingAssignment::GetStateAtHeight
GetStateAtHeight(assignment, height) ==
    IF ~assignment.revoked
    THEN IF height < assignment.assignment_effective_height THEN "ASSIGNING" ELSE "ASSIGNED"
    ELSE IF height < assignment.revocation_effective_height THEN "REVOKING" ELSE "REVOKED"

\* ForgingAssignment::IsActiveAtHeight
IsActiveAtHeight(assignment, height) ==
    LET state == GetStateAtHeight(assignment, height)
    IN state = "ASSIGNING" \/ state = "ASSIGNED" \/ state = "REVOKING"

\* a resolver that asks only whether a record exists
GetEffectiveSignerOfRecord(plotAddress, nHeight, view) ==
    LET assignment == GetForgingAssignment(view, plotAddress, nHeight)
    IN IF has_value(assignment)
       THEN assignment.forgingAddress
       ELSE plotAddress

\* assignment_state.cpp:14-37
GetEffectiveSigner(plotAddress, nHeight, view) ==
    LET assignment == GetForgingAssignment(view, plotAddress, nHeight)
    IN IF has_value(assignment) /\ IsActiveAtHeight(assignment, nHeight)
       THEN assignment.forgingAddress
       ELSE plotAddress

\* a state query that looks one block back
GetAssignmentStateOffByOne(plotAddress, height, view) ==
    LET assignment == GetForgingAssignment(view, plotAddress, height)
    IN IF ~has_value(assignment)
       THEN "UNASSIGNED"
       ELSE GetStateAtHeight(assignment, height - 1)

\* assignment_state.cpp:39-49
GetAssignmentState(plotAddress, height, view) ==
    LET assignment == GetForgingAssignment(view, plotAddress, height)
    IN IF ~has_value(assignment)
       THEN "UNASSIGNED"
       ELSE GetStateAtHeight(assignment, height)

\* a caller asks for the effective signer of a plot at a height
CallGetEffectiveSigner ==
    \E plot \in PlotAddresses, h \in 0..MaxHeight :
        /\ a_plot' = plot
        /\ a_height' = h
        /\ a_signer' = GetEffectiveSigner(plot, h, a_view)
        /\ a_state' = "none"
        /\ UNCHANGED <<a_view, schedVars, txVars, chainVars, rpcVars, fnVars, forgeVars>>

\* a caller asks for the derived state of a plot at a height
CallGetAssignmentState ==
    \E plot \in PlotAddresses, h \in 0..MaxHeight :
        /\ a_plot' = plot
        /\ a_height' = h
        /\ a_state' = GetAssignmentState(plot, h, a_view)
        /\ a_signer' = NoAddress
        /\ UNCHANGED <<a_view, schedVars, txVars, chainVars, rpcVars, fnVars, forgeVars>>

InitAssign ==
    /\ InitScheduler
    /\ now = 0
    /\ a_view \in CoinsViews
    /\ a_plot = NoAddress
    /\ a_height = 0
    /\ a_signer = NoAddress
    /\ a_state = "none"
    /\ TxIdle
    /\ ChainIdle
    /\ RpcIdle
    /\ FnIdle /\ ForgeIdle

NextAssign == CallGetEffectiveSigner \/ CallGetAssignmentState

SpecAssign == InitAssign /\ [][NextAssign]_vars

(***************************************************************************)
(* Forging-assignment records across block connect and disconnect.  The    *)
(* undo record is ForgingUndo of undo.h; the code that writes and applies  *)
(* it lives in the host chain's validation and follows the design          *)
(* document: an assignment inserts or overwrites the record of its plot    *)
(* (undo ADDED without a previous record, else MODIFIED), a revocation     *)
(* marks the record revoked and stamps the revocation height (undo         *)
(* REVOKED), and the undo records are applied last to first.               *)
(***************************************************************************)
\* blocks between confirmation and effect (Consensus::Params, scaled)
nForgingAssignmentDelay == 1
nForgingRevocationDelay == 2

\* an undo record that loses its type: the default constructor's ADDED
ForgingUndoDefaultType(type, assignment) == [type |-> "ADDED", assignment |-> assignment]

\* undo.h:63-82
ForgingUndo(type, assignment) == [type |-> type, assignment |-> assignment]

\* connect the payloads of a block in order: the records and the undo list
RECURSIVE ConnectPayloads(_, _, _, _)
ConnectPayloads(view, undo, payloads, nHeight) ==
    IF payloads = <<>> THEN [view |-> view, undo |-> undo]
    ELSE LET payload == Head(payloads)
             old == view[payload.plot]
             assigned == ForgingAssignment(payload.plot, payload.forging,
                                           nHeight + nForgingAssignmentDelay, FALSE, 0)
             revoked == [old EXCEPT !.revoked = TRUE,
                                    !.revocation_effective_height =
                                        nHeight + nForgingRevocationDelay]
         IN IF payload.kind = "assign"
            THEN ConnectPayloads([view EXCEPT ![payload.plot] = assigned],
                     Append(undo, IF old = NoAssignment
                                  THEN ForgingUndo("ADDED", assigned)
                                  ELSE ForgingUndo("MODIFIED", old)),
                     Tail(payloads), nHeight)
            ELSE IF old = NoAssignment \/ old.revoked
            THEN ConnectPayloads(view, undo, Tail(payloads), nHeight)
            ELSE ConnectPayloads([view EXCEPT ![payload.plot] = revoked],
                     Append(undo, ForgingUndo("REVOKED", old)),
                     Tail(payloads), nHeight)

\* disconnect: ADDED deletes the record, MODIFIED and REVOKED put the
\* stored record back; last to first
RECURSIVE DisconnectUndo(_, _)
DisconnectUndo(view, undo) ==
    IF undo = <<>> THEN view
    ELSE LET u == undo[Len(undo)]
         IN DisconnectUndo(
                [view EXCEPT ![u.assignment.plotAddress] =
                    IF u.type = "ADDED" THEN NoAssignment ELSE u.assignment],
                SubSeq(undo, 1, Len(undo) - 1))

\* the block is connected on top of the records
ConnectBlockAssignments ==
    /\ u_pc = "none"
    /\ u_block # <<>>
    /\ LET connected == ConnectPayloads(a_view, <<>>, u_block, u_height)
       IN /\ a_view' = connected.view
          /\ vforgingundo' = connected.undo
    /\ u_before' = a_view
    /\ u_pc' = "connected"
    /\ UNCHANGED <<schedVars, chainVars, rpcVars, fnVars, forgeVars, a_plot, a_height, a_signer, a_state, script, op_result,
                   own_tx, own_plot, own_result, u_block, u_height>>

\* a reorganisation disconnects it again
DisconnectBlockAssignments ==
    /\ u_pc = "connected"
    /\ a_view' = DisconnectUndo(a_view, vforgingundo)
    /\ u_pc' = "disconnected"
    /\ UNCHANGED <<schedVars, chainVars, rpcVars, fnVars, forgeVars, a_plot, a_height, a_signer, a_state, script, op_result,
                   own_tx, own_plot, own_result, u_block, u_height, u_before,
                   vforgingundo>>

(***************************************************************************)
(* opcodes.cpp: the OP_RETURN payloads.  A script is its sequence of       *)
(* bytes.  Addresses have ADDR_LEN bytes, so the assignment payload has    *)
(* 4 + 2 * ADDR_LEN bytes (44 in the program) and the revocation payload   *)
(* 4 + ADDR_LEN (24).  CScript's operator<< and GetOp are the host         *)
(* chain's script.h.                                                       *)
(***************************************************************************)
ADDR_LEN == 2
OP_RETURN == 106
\* opcodes.cpp:16,19  "POCX" and "XCOP"
ASSIGNMENT_MARKER == <<80, 79, 67, 88>>
REVOCATION_MARKER == <<88, 67, 79, 80>>

\* CScript::operator<<(std::vector<unsigned char>): the shortest push
PushData(scr, data) ==
    IF Len(data) < 76 THEN scr \o <<Len(data)>> \o data
    ELSE IF Len(data) <= 255 THEN scr \o <<76, Len(data)>> \o data
    ELSE scr \o <<77, Len(data) % 256, Len(data) \div 256>> \o data

\* opcodes.cpp:25-52
CreateAssignmentOpReturn(plotAddress, forgeAddress) ==
    PushData(<<OP_RETURN>>, ASSIGNMENT_MARKER \o plotAddress \o forgeAddress)

\* opcodes.cpp:54-77
CreateRevocationOpReturn(plotAddress) ==
    PushData(<<OP_RETURN>>, REVOCATION_MARKER \o plotAddress)

\* CScript::GetOp(pc, opcode, data): `at` is the index pc points to.
\* Opcodes 0..75 push that many bytes, 76, 77 and 78 (OP_PUSHDATA1/2/4)
\* read a 1, 2 or 4 byte little-endian length first, every other opcode
\* carries no data.
GetOp(scr, at) ==
    LET failed == [ok |-> FALSE, pc |-> at, data |-> <<>>]
    IN IF at > Len(scr) THEN failed
       ELSE LET opcode == scr[at]
                operand == IF opcode = 76 THEN 1 ELSE IF opcode = 77 THEN 2
                           ELSE IF opcode = 78 THEN 4 ELSE 0
                first == at + 1 + operand
            IN IF opcode > 78 THEN [ok |-> TRUE, pc |-> at + 1, data |-> <<>>]
               ELSE IF Len(scr) - at < operand THEN failed
               ELSE LET le(k) == IF k <= operand THEN scr[at + k] * (256 ^ (k - 1)) ELSE 0
                        nSize == IF opcode < 76 THEN opcode
                                 ELSE le(1) + le(2) + le(3) + le(4)
                    IN IF Len(scr) - (first - 1) < nSize THEN failed
                       ELSE [ok |-> TRUE, pc |-> first + nSize,
                             data |-> SubSeq(scr, first, first + nSize - 1)]

\* a detection that does not look past the push
IsAssignmentOpReturnPrefix(scr) ==
    IF scr = <<>> \/ scr[1] # OP_RETURN THEN FALSE
    ELSE LET op == GetOp(scr, 2)
         IN IF ~op.ok THEN FALSE
            ELSE IF Len(op.data) # 4 + 2 * ADDR_LEN THEN FALSE
            ELSE IF SubSeq(op.data, 1, 4) # ASSIGNMENT_MARKER THEN FALSE
            ELSE TRUE

\* opcodes.cpp:83-118
IsAssignmentOpReturn(scr) ==
    IF scr = <<>> \/ scr[1] # OP_RETURN THEN FALSE
    ELSE LET op == GetOp(scr, 2)
         IN IF ~op.ok THEN FALSE
            ELSE IF Len(op.data) # 4 + 2 * ADDR_LEN THEN FALSE
            ELSE IF SubSeq(op.data, 1, 4) # ASSIGNMENT_MARKER THEN FALSE
            ELSE IF op.pc # Len(scr) + 1 THEN FALSE
            ELSE TRUE

\* opcodes.cpp:120-155
IsRevocationOpReturn(scr) ==
    IF scr = <<>> \/ scr[1] # OP_RETURN THEN FALSE
    ELSE LET op == GetOp(scr, 2)
         IN IF ~op.ok THEN FALSE
            ELSE IF Len(op.data) # 4 + ADDR_LEN THEN FALSE
            ELSE IF SubSeq(op.data, 1, 4) # REVOCATION_MARKER THEN FALSE
            ELSE IF op.pc # Len(scr) + 1 THEN FALSE
            ELSE TRUE

\* a parser that returns the pair the other way round
ParseAssignmentOpReturnSwapped(scr) ==
    IF ~IsAssignmentOpReturn(scr) THEN <<>>
    ELSE LET op == GetOp(scr, 2)
         IN IF ~op.ok THEN <<>>
            ELSE <<SubSeq(op.data, 5 + ADDR_LEN, 4 + 2 * ADDR_LEN),
                   SubSeq(op.data, 5, 4 + ADDR_LEN)>>

\* opcodes.cpp:161-187: (plotAddress, forgeAddress), or <<>> for std::nullopt
ParseAssignmentOpReturn(scr) ==
    IF ~IsAssignmentOpReturn(scr) THEN <<>>
    ELSE LET op == GetOp(scr, 2)
         IN IF ~op.ok THEN <<>>
            ELSE <<SubSeq(op.data, 5, 4 + ADDR_LEN),
                   SubSeq(op.data, 5 + ADDR_LEN, 4 + 2 * ADDR_LEN)>>

\* opcodes.cpp:189-211: <<plotAddress>>, or <<>> for std::nullopt
ParseRevocationOpReturn(scr) ==
    IF ~IsRevocationOpReturn(scr) THEN <<>>
    ELSE LET op == GetOp(scr, 2)
         IN IF ~op.ok THEN <<>>
            ELSE <<SubSeq(op.data, 5, 4 + ADDR_LEN)>>

\* a validator looks at one output script
CallParseOpReturn ==
    /\ op_result = [called |-> FALSE]
    /\ own_plot = NoAddress
    /\ u_block = <<>>
    /\ op_result' = [called |-> TRUE,
                     is_assignment |-> IsAssignmentOpReturn(script),
                     is_revocation |-> IsRevocationOpReturn(script),
                     assignment |-> ParseAssignmentOpReturn(script),
                     revocation |-> ParseRevocationOpReturn(script)]
    /\ UNCHANGED <<schedVars, chainVars, rpcVars, fnVars, forgeVars, assignVars, script, own_tx, own_plot, own_result,
                   u_block, u_height, u_before, vforgingundo, u_pc>>

(***************************************************************************)
(* opcodes.cpp:217-255  VerifyPlotOwnership.  The coins view maps an       *)
(* outpoint to the coin it holds; ExtractDestination gives the destination *)
(* a standard output script pays to.                                       *)
(***************************************************************************)
\* outpoint -> coin: the destination type of coin.out.scriptPubKey and its
\* 20-byte hash; "spent" is no coin (GetCoin returns std::nullopt) and
\* "nonstandard" a script ExtractDestination fails on
Coins ==
    <<[kind |-> "WitnessV0KeyHash", hash |-> 1],
      [kind |-> "PKHash", hash |-> 1],
      [kind |-> "spent"],
      [kind |-> "WitnessV0KeyHash", hash |-> 2],
      [kind |-> "nonstandard", hash |-> 1],
      [kind |-> "WitnessV0ScriptHash", hash |-> 2]>>

\* an ownership test that accepts every key-hash destination
RECURSIVE VerifyPlotOwnershipAnyKeyHash(_, _, _)
VerifyPlotOwnershipAnyKeyHash(vin, plotAddress, view) ==
    IF vin = <<>> THEN FALSE
    ELSE LET coin == view[Head(vin)]
         IN IF coin.kind = "spent"
            THEN VerifyPlotOwnershipAnyKeyHash(Tail(vin), plotAddress, view)
            ELSE IF coin.kind = "nonstandard"
            THEN VerifyPlotOwnershipAnyKeyHash(Tail(vin), plotAddress, view)
            ELSE IF (coin.kind = "WitnessV0KeyHash" \/ coin.kind = "PKHash")
                    /\ coin.hash = plotAddress
            THEN TRUE
            ELSE VerifyPlotOwnershipAnyKeyHash(Tail(vin), plotAddress, view)

RECURSIVE VerifyPlotOwnership(_, _, _)
VerifyPlotOwnership(vin, plotAddress, view) ==
    IF vin = <<>> THEN FALSE
    ELSE LET coin == view[Head(vin)]
         IN IF coin.kind = "spent"
            THEN VerifyPlotOwnership(Tail(vin), plotAddress, view)
            ELSE IF coin.kind = "nonstandard"
            THEN VerifyPlotOwnership(Tail(vin), plotAddress, view)
            ELSE IF coin.kind = "WitnessV0KeyHash" /\ coin.hash = plotAddress
            THEN TRUE
            ELSE VerifyPlotOwnership(Tail(vin), plotAddress, view)

CallVerifyPlotOwnership ==
    /\ own_result = "none"
    /\ own_plot # NoAddress
    /\ own_result' = IF VerifyPlotOwnership(own_tx, own_plot, Coins) THEN "true" ELSE "false"
    /\ UNCHANGED <<schedVars, chainVars, rpcVars, fnVars, forgeVars, assignVars, script, op_result, own_tx, own_plot,
                   u_block, u_height, u_before, vforgingundo, u_pc>>

(***************************************************************************)
(* SpecTx: the functions that process assignment transactions, each on     *)
(* inputs drawn from a bounded set.                                        *)
(***************************************************************************)
\* one of: any records and a block of 1..MaxPayloads payloads to connect;
\* a script (what the Create functions build for some addresses, the same
\* payload behind an OP_PUSHDATA1/2/4 push, and each of these with one byte
\* replaced, inserted or deleted); a transaction of up to MaxInputs inputs
\* and a plot address
InitTx ==
    /\ InitScheduler
    /\ tip = QueueTip
    /\ nodeContextOk
    /\ now = 0
    /\ ChainIdle
    /\ RpcIdle
    /\ FnIdle /\ ForgeIdle
    /\ a_plot = NoAddress /\ a_height = 0 /\ a_signer = NoAddress /\ a_state = "none"
    /\ op_result = [called |-> FALSE]
    /\ own_result = "none"
    /\ u_before = <<>> /\ vforgingundo = <<>> /\ u_pc = "none"
    /\ \/ /\ a_view \in CoinsViews
          /\ \E n \in 1..MaxPayloads :
                u_block \in [1..n -> [kind : {"assign", "revoke"}, plot : PlotAddresses,
                                      forging : {3, 4}]]
          /\ u_height \in 1..2
          /\ script = <<>> /\ own_tx = <<>> /\ own_plot = NoAddress
       \/ /\ a_view = [p \in PlotAddresses |-> NoAssignment]
          /\ u_block = <<>> /\ u_height = 0
          /\ own_tx = <<>> /\ own_plot = NoAddress
          /\ \E plot \in [1..ADDR_LEN -> 1..2], forge \in [1..ADDR_LEN -> 1..2],
              revocation \in BOOLEAN, push \in 1..4,
              i \in 1..(MaxScriptLen + 1), b \in {0, 1, 6, 8, 76, 80, 88, 106},
              edit \in {"keep", "set", "insert", "delete", "empty"} :
               LET data == IF revocation THEN REVOCATION_MARKER \o plot
                           ELSE ASSIGNMENT_MARKER \o plot \o forge
                   base == IF push = 1
                           THEN IF revocation THEN CreateRevocationOpReturn(plot)
                                ELSE CreateAssignmentOpReturn(plot, forge)
                           ELSE IF push = 2 THEN <<OP_RETURN, 76, Len(data)>> \o data
                           ELSE IF push = 3 THEN <<OP_RETURN, 77, Len(data), 0>> \o data
                           ELSE <<OP_RETURN, 78, Len(data), 0, 0, 0>> \o data
                   k == IF i > Len(base) THEN Len(base) ELSE i
               IN script = IF edit = "keep" THEN base
                           ELSE IF edit = "empty" THEN <<>>
                           ELSE IF edit = "set" THEN [base EXCEPT ![k] = b]
                           ELSE IF edit = "insert"
                           THEN IF i > Len(base) THEN Append(base, b)
                                ELSE SubSeq(base, 1, i - 1) \o <<b>> \o SubSeq(base, i, Len(base))
                           ELSE SubSeq(base, 1, k - 1) \o SubSeq(base, k + 1, Len(base))
       \/ /\ a_view = [p \in PlotAddresses |-> NoAssignment]
          /\ u_block = <<>> /\ u_height = 0
          /\ script = <<>>
          /\ \E n \in 0..MaxInputs : own_tx \in [1..n -> DOMAIN Coins]
          /\ own_plot \in PlotAddresses

NextTx ==
    \/ ConnectBlockAssignments \/ DisconnectBlockAssignments
    \/ CallParseOpReturn
    \/ CallVerifyPlotOwnership

SpecTx == InitTx /\ [][NextTx]_vars

(***************************************************************************)
(* Difficulty adjustment over chains grown block by block, for several     *)
(* consensus parameters: both calibrations, target spacings up to one      *)
(* that exceeds the calibration power (genesis base target 1), rolling     *)
(* windows shorter and longer than the chain.  Block times run backwards,  *)
(* stand still, keep the target spacing or fall far behind it.             *)
(***************************************************************************)
\* a block connected on top of the tip of the grown chain; its header carries
\* GetNextBaseTarget of its parent
ChainConnect ==
    LET last == Cardinality(DOMAIN d_index) - 1
    IN /\ last < MaxChain
       /\ \E k \in 0..3 :
             LET dt == CASE k = 0 -> 0 - 1
                         [] k = 1 -> 0
                         [] k = 2 -> d_params.nPowTargetSpacing
                         [] OTHER -> 5 * d_params.nPowTargetSpacing
             IN d_index' = ConnectBlock(d_index, last + 1, last,
                                        d_index[last].nTime + dt, 1, 100, d_params)
       /\ UNCHANGED <<schedVars, assignVars, txVars, rpcVars, fnVars, forgeVars, d_params>>

InitChain ==
    /\ InitScheduler
    /\ tip = QueueTip
    /\ nodeContextOk
    /\ now = 0
    /\ AssignIdle
    /\ TxIdle
    /\ RpcIdle
    /\ FnIdle /\ ForgeIdle
    /\ \E spacing \in {1, 2, 64}, window \in 1..3, low \in BOOLEAN :
          /\ d_params = [nPowTargetSpacing |-> spacing,
                         nPoCXRollingWindowSize |-> window,
                         fPoCXLowCapacityCalibration |-> low]
          /\ d_index = 0 :> [pprev |-> NoBlock, nHeight |-> 0, nTime |-> MaxChain,
                             account_id |-> 1, quality |-> 0, generationSignature |-> 0,
                             nBaseTarget |-> CalculateGenesisBaseTarget(spacing, low)]

NextChain == ChainConnect

SpecChain == InitChain /\ [][NextChain]_vars

(***************************************************************************)
(* Difficulty adjustment over chains that fill a long rolling window, in   *)
(* low-capacity calibration: the blocks keep the target spacing or fall    *)
(* five spacings behind it.                                                *)
(***************************************************************************)
\* difficulty.cpp:35-52: the window and the clamped timespan of an adjustment
Lookback(index, pindexLast, params) ==
    Min(params.nPoCXRollingWindowSize, index[pindexLast].nHeight)

ClampedTimespan(index, pindexLast, params) ==
    LET lookback == Lookback(index, pindexLast, params)
        pindexFirst == GetAncestor(index, pindexLast, index[pindexLast].nHeight - lookback + 1)
        target_timespan == lookback * params.nPowTargetSpacing
        min_timespan == IF target_timespan \div 2 = 0 THEN 1 ELSE target_timespan \div 2
        raw_timespan == index[pindexLast].nTime - index[pindexFirst].nTime
        low_timespan == Max(raw_timespan, min_timespan)
    IN Min(low_timespan, target_timespan * 2)

\* a block connected on top of the tip of the long chain
ChainConnectWindow ==
    LET last == Cardinality(DOMAIN d_index) - 1
    IN /\ last < MaxWindowChain
       /\ \E late \in BOOLEAN :
             LET dt == IF late THEN 5 * d_params.nPowTargetSpacing
                       ELSE d_params.nPowTargetSpacing
             IN d_index' = ConnectBlock(d_index, last + 1, last,
                                        d_index[last].nTime + dt, 1, 100, d_params)
       /\ UNCHANGED <<schedVars, assignVars, txVars, rpcVars, fnVars, forgeVars, d_params>>

InitWindow ==
    /\ InitScheduler
    /\ tip = QueueTip
    /\ nodeContextOk
    /\ now = 0
    /\ AssignIdle
    /\ TxIdle
    /\ RpcIdle
    /\ FnIdle /\ ForgeIdle
    /\ \E spacing \in {1, 2}, window \in {4, 8} :
          /\ d_params = [nPowTargetSpacing |-> spacing,
                         nPoCXRollingWindowSize |-> window,
                         fPoCXLowCapacityCalibration |-> TRUE]
          /\ d_index = 0 :> [pprev |-> NoBlock, nHeight |-> 0, nTime |-> 0,
                             account_id |-> 1, quality |-> 0, generationSignature |-> 0,
                             nBaseTarget |-> CalculateGenesisBaseTarget(spacing, TRUE)]

NextWindow == ChainConnectWindow

SpecWindow == InitWindow /\ [][NextWindow]_vars

(***************************************************************************)
(* mining.cpp: the submit_nonce handler, run by the RPC threads.  The      *)
(* checks of a call read its request and, under cs_main, the chain state;  *)
(* they are one step.  EnsurePoCXScheduler and the call of SubmitNonce     *)
(* interleave with the other thread.  The scheduler's worker is not        *)
(* scheduled here: the queue only grows.                                   *)
(***************************************************************************)
\* steps taken at the years counted in halving intervals, not in quarters of one
GetPoCXCompressionBoundsInYears(nHeight, nSubsidyHalvingInterval) ==
    LET min_compression ==
            IF nHeight >= 124 * nSubsidyHalvingInterval THEN 6
            ELSE IF nHeight >= 60 * nSubsidyHalvingInterval THEN 5
            ELSE IF nHeight >= 28 * nSubsidyHalvingInterval THEN 4
            ELSE IF nHeight >= 12 * nSubsidyHalvingInterval THEN 3
            ELSE IF nHeight >= 4 * nSubsidyHalvingInterval THEN 2
            ELSE 1
    IN [nPoCXMinCompression |-> min_compression,
        nPoCXTargetCompression |-> min_compression + 1]

\* params.cpp:40-56: the last of the five tests that holds sets min_compression
GetPoCXCompressionBounds(nHeight, nSubsidyHalvingInterval) ==
    LET min_compression ==
            IF nHeight >= (124 \div 4) * nSubsidyHalvingInterval THEN 6
            ELSE IF nHeight >= (60 \div 4) * nSubsidyHalvingInterval THEN 5
            ELSE IF nHeight >= (28 \div 4) * nSubsidyHalvingInterval THEN 4
            ELSE IF nHeight >= (12 \div 4) * nSubsidyHalvingInterval THEN 3
            ELSE IF nHeight >= (4 \div 4) * nSubsidyHalvingInterval THEN 2
            ELSE 1
    IN [nPoCXMinCompression |-> min_compression,
        nPoCXTargetCompression |-> min_compression + 1]

\* the host chain's JSONRPCError builds a UniValue error object, not an exception
\* class
JSONRPCError(code, message) == [type |-> "UniValue", code |-> code, message |-> message]

\* mining.cpp:148-262: what the checks of a call throw, "none" when all pass.
\* account_id and seed 0 are malformed strings; raw_quality 0 is a proof
\* pocx_validate_block rejects; the wallets hold the keys of addresses 1 and 3.
SubmitNonceChecks(req, context, loader, view) ==
    IF req.account_id = 0
    THEN JSONRPCError("RPC_INVALID_PARAMETER", "Invalid account_id format")
    ELSE IF req.seed = 0
    THEN JSONRPCError("RPC_INVALID_PARAMETER", "Invalid seed format")
    ELSE LET bounds == GetPoCXCompressionBounds(context.height,
                                                ConsensusParams.nSubsidyHalvingInterval)
         IN IF req.height # context.height
            THEN JSONRPCError("RPC_INVALID_PARAMETER", "Invalid height")
            ELSE IF req.generation_signature # context.generation_signature
            THEN JSONRPCError("RPC_VERIFY_REJECTED", "Generation signature mismatch")
            ELSE IF loader /\ GetEffectiveSigner(req.account_id, req.height, view) \notin {1, 3}
            THEN JSONRPCError("RPC_INVALID_ADDRESS_OR_KEY", "No private key available")
            ELSE IF req.compression < bounds.nPoCXMinCompression
                    \/ req.compression > bounds.nPoCXTargetCompression
            THEN JSONRPCError("RPC_INVALID_PARAMETER", "Invalid compression level")
            ELSE IF req.raw_quality = 0
            THEN JSONRPCError("RPC_VERIFY_REJECTED", "PoCX validation failed")
            ELSE [type |-> "none"]

\* mining.cpp:288-293: the handler's catch clause answers a std::exception;
\* anything else leaves the handler and the RPC server answers with the
\* error object
Catch(thrown) ==
    IF thrown.type = "std::exception"
    THEN [kind |-> "result", accepted |-> FALSE, error |-> thrown.message]
    ELSE [kind |-> "jsonrpc_error", code |-> thrown.code, message |-> thrown.message]

\* mining.cpp:128-265: a call arrives, runs its checks and computes the
\* deadlines it will answer with
RpcCall(t) ==
    /\ rpc_pc[t] \in {"idle", "done"}
    /\ rpc_calls < MaxRpcCalls
    /\ rpc_calls' = rpc_calls + 1
    /\ \E fault \in 0..7, valid \in BOOLEAN, context \in {GetNewBlockContext(tip)} :
          \* a request for the next block on the tip from the plot of address 1,
          \* or one that departs from it in one field, with or without a valid proof
          LET req == [height |-> context.height + IF fault = 3 THEN 1 ELSE 0,
                      generation_signature |->
                          context.generation_signature + IF fault = 4 THEN 1 ELSE 0,
                      account_id |-> CASE fault = 1 -> 0 [] fault = 5 -> 2 [] OTHER -> 1,
                      seed |-> IF fault = 2 THEN 0 ELSE 7,
                      nonce |-> rpc_calls + 1,
                      compression |-> CASE fault = 6 -> 1 [] fault = 7 -> 4 [] OTHER -> 2,
                      raw_quality |-> IF valid THEN 100 ELSE 0,
                      deadline_seconds |-> (IF valid THEN 100 ELSE 0) \div context.base_target,
                      forge_time |-> CalculateTimeBendedDeadline(IF valid THEN 100 ELSE 0,
                                         context.base_target, nPowTargetSpacing)]
              thrown == SubmitNonceChecks(req, context, wallet_loader, a_view)
          IN /\ rpc_req' = [rpc_req EXCEPT ![t] = req]
             /\ IF thrown.type = "none"
                THEN /\ rpc_pc' = [rpc_pc EXCEPT ![t] = "ensure"]
                     /\ rpc_res' = [rpc_res EXCEPT ![t] = [kind |-> "none"]]
                ELSE /\ rpc_pc' = [rpc_pc EXCEPT ![t] = "done"]
                     /\ rpc_res' = [rpc_res EXCEPT ![t] = Catch(thrown)]
    /\ UNCHANGED <<g_pocx_scheduler, g_scheduler_init_mutex, constructed, wallet_loader>>
    /\ UNCHANGED <<schedVars, assignVars, txVars, chainVars, fnVars, forgeVars>>

\* an initialisation that does not take the mutex
EnsureLockUnguarded(t) ==
    /\ rpc_pc[t] = "ensure"
    /\ rpc_pc' = [rpc_pc EXCEPT ![t] = IF g_pocx_scheduler = 0 THEN "make" ELSE "unlock"]
    /\ UNCHANGED <<g_pocx_scheduler, g_scheduler_init_mutex, constructed, wallet_loader,
                   rpc_calls, rpc_req, rpc_res>>
    /\ UNCHANGED <<schedVars, assignVars, txVars, chainVars, fnVars, forgeVars>>

\* mining.cpp:42-43: EnsurePoCXScheduler takes the mutex and tests the pointer
EnsureLock(t) ==
    /\ rpc_pc[t] = "ensure"
    /\ g_scheduler_init_mutex = 0
    /\ g_scheduler_init_mutex' = t
    /\ rpc_pc' = [rpc_pc EXCEPT ![t] = IF g_pocx_scheduler = 0 THEN "make" ELSE "unlock"]
    /\ UNCHANGED <<g_pocx_scheduler, constructed, wallet_loader, rpc_calls, rpc_req, rpc_res>>
    /\ UNCHANGED <<schedVars, assignVars, txVars, chainVars, fnVars, forgeVars>>

\* mining.cpp:44-47: it constructs the scheduler if the pointer was null (the
\* unique_ptr destroys what it held before) and releases the mutex
EnsureMake(t) ==
    /\ rpc_pc[t] \in {"make", "unlock"}
    /\ IF rpc_pc[t] = "make"
       THEN /\ constructed' = constructed + 1
            /\ g_pocx_scheduler' = constructed + 1
            /\ m_submission_queue' = <<>>
       ELSE UNCHANGED <<constructed, g_pocx_scheduler, m_submission_queue>>
    /\ g_scheduler_init_mutex' = 0
    /\ rpc_pc' = [rpc_pc EXCEPT ![t] = "submit"]
    /\ UNCHANGED <<m_queue_mutex, cv_notified, m_shutdown, sd_pc, tip, now, nodeContextOk,
                   next_nonce, ret, enqueued>>
    /\ UNCHANGED workerVars
    /\ UNCHANGED <<wallet_loader, rpc_calls, rpc_req, rpc_res>>
    /\ UNCHANGED <<assignVars, txVars, chainVars, fnVars, forgeVars>>

\* mining.cpp:270-286: the call of SubmitNonce on the global scheduler and the
\* answer
RpcEnqueue(t) ==
    LET req == rpc_req[t]
    IN /\ rpc_pc[t] = "submit"
       /\ rpc_pc' = [rpc_pc EXCEPT ![t] = "done"]
       /\ IF g_pocx_scheduler = 0
          THEN /\ rpc_res' = [rpc_res EXCEPT ![t] =
                      Catch(JSONRPCError("RPC_INTERNAL_ERROR",
                                         "Failed to initialize PoCX scheduler"))]
               /\ UNCHANGED schedVars
               /\ UNCHANGED <<assignVars, txVars, chainVars, fnVars, forgeVars>>
          ELSE /\ SubmitNonce(req.account_id, req.seed, req.nonce, req.raw_quality,
                              req.compression, req.height, req.generation_signature)
               /\ rpc_res' = [rpc_res EXCEPT ![t] =
                      IF ret' = "true"
                      THEN [kind |-> "result", accepted |-> TRUE,
                            scheduler |-> g_pocx_scheduler,
                            quality |-> req.deadline_seconds,
                            poc_time |-> req.forge_time]
                      ELSE Catch(JSONRPCError("RPC_CLIENT_IN_INITIAL_DOWNLOAD",
                                              "Submission queue is full"))]
       /\ UNCHANGED <<g_pocx_scheduler, g_scheduler_init_mutex, constructed, wallet_loader,
                      rpc_calls, rpc_req>>

InitRpc ==
    /\ InitScheduler
    /\ nodeContextOk
    /\ now = 0
    /\ tip = QueueTip
    /\ \E assigned \in BOOLEAN :
          a_view = [p \in PlotAddresses |->
                       IF assigned /\ p = 2 THEN ForgingAssignment(2, 3, 1, FALSE, 0)
                       ELSE NoAssignment]
    /\ a_plot = NoAddress /\ a_height = 0 /\ a_signer = NoAddress /\ a_state = "none"
    /\ TxIdle
    /\ ChainIdle
    /\ FnIdle /\ ForgeIdle
    /\ g_pocx_scheduler = 0
    /\ g_scheduler_init_mutex = 0
    /\ constructed = 0
    /\ wallet_loader \in BOOLEAN
    /\ rpc_calls = 0
    /\ rpc_pc = [t \in RpcThreads |-> "idle"]
    /\ rpc_req = [t \in RpcThreads |-> NoSubmission]
    /\ rpc_res = [t \in RpcThreads |-> [kind |-> "none"]]

NextRpc ==
    \E t \in RpcThreads : RpcCall(t) \/ EnsureLock(t) \/ EnsureMake(t) \/ RpcEnqueue(t)

SpecRpc == InitRpc /\ [][NextRpc]_vars

(***************************************************************************)
(* Shabal-256 (pocx/crypto/shabal256.cpp, shabal256_lite.cpp).  A uint32_t  *)
(* is held as <<high half, low half>>, a byte array as a sequence.         *)
(***************************************************************************)
\* shabal256.cpp:11-27: the initial state, each uint32_t as <<high half, low half>>
A_INIT ==
    [i \in 0..11 |->
        <<<<\h52F8, \h4552>>, <<\hE54B, \h7999>>, <<\h2D8E, \hE3EC>>, <<\hB964, \h5191>>,
          <<\hE007, \h8B86>>, <<\hBB7C, \h44C9>>, <<\hD2B5, \hC1CA>>, <<\hB0D2, \hEB8C>>,
          <<\h14CE, \h5A45>>, <<\h22AF, \h50DC>>, <<\hEFFD, \hBC6B>>, <<\hEB21, \hB74A>>>>[i + 1]]

B_INIT ==
    [i \in 0..15 |->
        <<<<\hB555, \hC6EE>>, <<\h3E71, \h0596>>, <<\hA72A, \h652F>>, <<\h9301, \h515F>>,
          <<\hDA28, \hC1FA>>, <<\h696F, \hD868>>, <<\h9CB6, \hBF72>>, <<\h0AFE, \h4002>>,
          <<\hA6E0, \h3615>>, <<\h5138, \hC1D4>>, <<\hBE21, \h6306>>, <<\hB38B, \h8890>>,
          <<\h3EA8, \hB96B>>, <<\h3299, \hACE4>>, <<\h3092, \h4DD4>>, <<\h55CB, \h34A5>>>>[i + 1]]

C_INIT ==
    [i \in 0..15 |->
        <<<<\hB405, \hF031>>, <<\hC423, \h3EBA>>, <<\hB373, \h3979>>, <<\hC0DD, \h9D55>>,
          <<\hC51C, \h28AE>>, <<\hA327, \hB8E1>>, <<\h56C5, \h6167>>, <<\hED61, \h4433>>,
          <<\h88B5, \h9D60>>, <<\h60E2, \hCEBA>>, <<\h758B, \h4B8B>>, <<\h83E8, \h2A7F>>,
          <<\hBC96, \h8828>>, <<\hE6E0, \h0BF7>>, <<\hBA83, \h9E55>>, <<\h9B49, \h1C60>>>>[i + 1]]

\* the bitwise and of two 16-bit halves
RECURSIVE BitAnd(_, _)
BitAnd(x, y) ==
    IF x = 0 \/ y = 0 THEN 0
    ELSE (x % 2) * (y % 2) + 2 * BitAnd(x \div 2, y \div 2)

\* the uint32_t operators the hash uses, on words held as <<high half, low half>>;
\* the second operand of "mul" and "rotl" is a small integer
U32(op, x, y) ==
    CASE op = "add" ->
           LET lo == x[2] + y[2]
           IN <<(x[1] + y[1] + (lo \div 65536)) % 65536, lo % 65536>>
      [] op = "sub" ->
           LET lo == x[2] - y[2] + 65536
           IN <<(x[1] - y[1] + 65535 + (lo \div 65536)) % 65536, lo % 65536>>
      [] op = "mul" ->
           LET lo == x[2] * y
           IN <<(x[1] * y + (lo \div 65536)) % 65536, lo % 65536>>
      [] op = "xor" ->
           <<x[1] + y[1] - 2 * BitAnd(x[1], y[1]), x[2] + y[2] - 2 * BitAnd(x[2], y[2])>>
      [] op = "andnot" ->
           <<BitAnd(x[1], 65535 - y[1]), BitAnd(x[2], 65535 - y[2])>>
      [] op = "not" ->
           <<65535 - x[1], 65535 - x[2]>>
      [] op = "rotl" ->
           LET hi == IF y >= 16 THEN x[2] ELSE x[1]
               lo == IF y >= 16 THEN x[1] ELSE x[2]
               n == y % 16
           IN <<(hi * (2 ^ n) + (lo \div (2 ^ (16 - n)))) % 65536,
                (lo * (2 ^ n) + (hi \div (2 ^ (16 - n)))) % 65536>>

\* Op applied to v, with v evaluated before Op is entered
WithValue(v, Op(_)) == IF v = v THEN Op(v) ELSE Op(v)

\* shabal256.cpp:48-53 with the arguments of the k-th call in perm
\* (shabal256.cpp:55-104); s holds the arrays a and b
perm_elt(s, c, data, k) ==
    LET xa0 == k % 12
        xa1 == (k + 11) % 12
        xb0 == k % 16
        xb1 == (k + 13) % 16
        xb2 == (k + 9) % 16
        xb3 == (k + 6) % 16
        xc == c[(56 - k) % 16]
        xm == data[k % 16]
        inner == U32("xor", U32("xor", s.a[xa0],
                                U32("mul", U32("rotl", s.a[xa1], 15), 5)), xc)
        new_a == U32("xor", U32("xor", U32("xor", U32("mul", inner, 3), s.b[xb1]),
                                U32("andnot", s.b[xb2], s.b[xb3])), xm)
    IN WithValue(new_a, LAMBDA v :
           [a |-> [s.a EXCEPT ![xa0] = v],
            b |-> [s.b EXCEPT ![xb0] = U32("not", U32("xor", U32("rotl", s.b[xb0], 1), v), 0)]])

\* shabal256.cpp:55-104: the calls first, first + 1, ..., last - 1 of perm, the
\* range split in halves
RECURSIVE perm(_, _, _, _, _)
perm(s, c, data, first, last) ==
    IF last - first = 1 THEN perm_elt(s, c, data, first)
    ELSE WithValue(perm(s, c, data, first, (first + last) \div 2), LAMBDA half :
             perm(half, c, data, (first + last) \div 2, last))

\* apply_p with the words of b rotated by 15 bits, not 17
apply_pRotl15(a, b, c, data) ==
    WithValue([a |-> a, b |-> [i \in 0..15 |-> U32("rotl", b[i], 15)]], LAMBDA s :
        WithValue(perm(s, c, data, 0, 48), LAMBDA p :
            [a |-> [i \in 0..11 |->
                      U32("add", p.a[i],
                          U32("add", U32("add", c[(i + 11) % 16], c[(i + 15) % 16]),
                              c[(i + 3) % 16]))],
             b |-> p.b]))

\* shabal256.cpp:106-124
apply_p(a, b, c, data) ==
    WithValue([a |-> a, b |-> [i \in 0..15 |-> U32("rotl", b[i], 17)]], LAMBDA s :
        WithValue(perm(s, c, data, 0, 48), LAMBDA p :
            [a |-> [i \in 0..11 |->
                      U32("add", p.a[i],
                          U32("add", U32("add", c[(i + 11) % 16], c[(i + 15) % 16]),
                              c[(i + 3) % 16]))],
             b |-> p.b]))

\* shabal256.cpp:152-181: one message block; "absorb" is the body of the loop
\* over the data and the pre-terminator, "term" the terminator block, "final"
\* one of the three closing rounds
ShabalBlock(st, m, mode) ==
    WithValue([a |-> [st.a EXCEPT ![0] = U32("xor", st.a[0], st.w_low),
                                  ![1] = U32("xor", st.a[1], st.w_high)],
               b |-> IF mode = "final" THEN st.c
                     ELSE [i \in 0..15 |-> U32("add", st.b[i], m[i])],
               c |-> IF mode = "final" THEN st.b ELSE st.c,
               w_low |-> U32("add", st.w_low, <<0, 1>>)], LAMBDA s :
        WithValue(apply_p(s.a, s.b, s.c, m), LAMBDA p :
            IF mode = "absorb"
            THEN [a |-> p.a,
                  b |-> [i \in 0..15 |-> U32("sub", s.c[i], m[i])],
                  c |-> p.b,
                  w_low |-> s.w_low,
                  w_high |-> IF s.w_low = <<0, 0>> THEN U32("add", st.w_high, <<0, 1>>)
                             ELSE st.w_high]
            ELSE [a |-> p.a, b |-> p.b, c |-> s.c, w_low |-> st.w_low,
                  w_high |-> st.w_high]))

\* shabal256.cpp:152-160: the loop over the num whole blocks of data, the bytes
\* read as little-endian uint32_t
RECURSIVE Absorb(_, _, _, _)
Absorb(st, data, num, ptr) ==
    IF num = 0 THEN st
    ELSE WithValue(ShabalBlock(st, [i \in 0..15 |->
                       <<data[4 * (ptr + i) + 4] * 256 + data[4 * (ptr + i) + 3],
                         data[4 * (ptr + i) + 2] * 256 + data[4 * (ptr + i) + 1]>>],
                       "absorb"), LAMBDA next :
             Absorb(next, data, num - 1, ptr + 16))

\* the closing of both hashes, shabal256.cpp:162-181 and
\* shabal256_lite.cpp:144-295: the terminator block and three more rounds
RECURSIVE Close(_, _, _)
Close(st, term, rounds) ==
    IF rounds = 0 THEN st
    ELSE WithValue(ShabalBlock(st, term, IF rounds = 4 THEN "term" ELSE "final"),
                   LAMBDA next : Close(next, term, rounds - 1))

\* shabal256.cpp:139-185.  pre_term is <<>> for nullptr, the output is the
\* 32 bytes of b[8..15]
Shabal256(data, len, pre_term, term) ==
    WithValue(Absorb([a |-> A_INIT, b |-> B_INIT, c |-> C_INIT, w_low |-> <<0, 1>>,
                      w_high |-> <<0, 0>>], data, len \div 64, 0), LAMBDA absorbed :
        WithValue(Close(IF pre_term # <<>> THEN ShabalBlock(absorbed, pre_term, "absorb")
                        ELSE absorbed, term, 4), LAMBDA closed :
            [j \in 1..32 |->
                CASE (j - 1) % 4 = 0 -> closed.b[8 + ((j - 1) \div 4)][2] % 256
                  [] (j - 1) % 4 = 1 -> closed.b[8 + ((j - 1) \div 4)][2] \div 256
                  [] (j - 1) % 4 = 2 -> closed.b[8 + ((j - 1) \div 4)][1] % 256
                  [] OTHER -> closed.b[8 + ((j - 1) \div 4)][1] \div 256]))

\* shabal256_lite.cpp:35-299: the first block is gensig then data[0..31], the
\* second data[32..63] then the terminator; the result is b_u64[4], written
\* here as its four halves from the highest
Shabal256Lite(data, gensig) ==
    LET data_aligned == [i \in 0..15 |-> <<data[4 * i + 4] * 256 + data[4 * i + 3],
                                           data[4 * i + 2] * 256 + data[4 * i + 1]>>]
        gensig_u32 == [i \in 0..7 |-> <<gensig[4 * i + 4] * 256 + gensig[4 * i + 3],
                                        gensig[4 * i + 2] * 256 + gensig[4 * i + 1]>>]
        term == [i \in 0..7 |-> IF i = 0 THEN <<0, 128>> ELSE <<0, 0>>]
    IN WithValue(ShabalBlock([a |-> A_INIT, b |-> B_INIT, c |-> C_INIT, w_low |-> <<0, 1>>,
                              w_high |-> <<0, 0>>],
                             [i \in 0..15 |-> IF i < 8 THEN gensig_u32[i]
                                              ELSE data_aligned[i - 8]],
                             "absorb"), LAMBDA first :
           WithValue(Close(first, [i \in 0..15 |-> IF i < 8 THEN data_aligned[i + 8]
                                                   ELSE term[i - 8]], 4), LAMBDA closed :
               <<closed.b[9][1], closed.b[9][2], closed.b[8][1], closed.b[8][2]>>))

\* pocx_tests.cpp:26-88: the arguments of the test vectors A, B, C and D
ShabalTestVectors ==
    LET zero == [i \in 1..64 |-> 0]
    IN {[fn |-> "Shabal256", test |-> "A", data |-> zero, len |-> 64, pre_term |-> <<>>,
         term |-> [i \in 0..15 |-> IF i = 0 THEN <<0, 128>> ELSE <<0, 0>>]],
        [fn |-> "Shabal256", test |-> "B",
         data |-> <<\h61, \h62, \h63, \h64, \h65, \h66, \h67, \h68, \h69, \h6A, \h6B, \h6C,
                   \h6D, \h6E, \h6F, \h70, \h71, \h72, \h73, \h74, \h75, \h76, \h77, \h78,
                   \h79, \h7A, \h2D, \h30, \h31, \h32, \h33, \h34, \h35, \h36, \h37, \h38,
                   \h39, \h2D, \h41, \h42, \h43, \h44, \h45, \h46, \h47, \h48, \h49, \h4A,
                   \h4B, \h4C, \h4D, \h4E, \h4F, \h50, \h51, \h52, \h53, \h54, \h55, \h56,
                   \h57, \h58, \h59, \h5A>>,
         len |-> 64, pre_term |-> <<>>,
         term |-> [i \in 0..15 |->
                     <<<<\h3231, \h302D>>, <<\h3635, \h3433>>, <<\h2D39, \h3837>>, <<\h6463, \h6261>>,
                       <<\h6867, \h6665>>, <<\h6C6B, \h6A69>>, <<\h706F, \h6E6D>>, <<\h7473, \h7271>>,
                       <<\h7877, \h7675>>, <<\h0080, \h7A79>>, <<\h0000, \h0000>>, <<\h0000, \h0000>>,
                       <<\h0000, \h0000>>, <<\h0000, \h0000>>, <<\h0000, \h0000>>, <<\h0000, \h0000>>>>[i + 1]]],
        [fn |-> "Shabal256Lite", test |-> "C", data |-> zero,
         gensig |-> [i \in 1..32 |-> 0]],
        [fn |-> "Shabal256Lite", test |-> "D", data |-> zero,
         gensig |-> <<\h4A, \h6F, \h68, \h6E, \h6E, \h79, \h46, \h46, \h4D, \h20, \h68, \h61,
                     \h74, \h20, \h64, \h65, \h6E, \h20, \h67, \h72, \hF6, \hDF, \h74, \h65,
                     \h6E, \h20, \h50, \h65, \h6E, \h69, \h73, \h21>>]}

(***************************************************************************)
(* Functions of the consensus parameters and of the hash, called once on   *)
(* arguments drawn from bounded sets.                                      *)
(***************************************************************************)
CallGetPoCXCompressionBounds ==
    /\ f_in.fn = "GetPoCXCompressionBounds"
    /\ f_out = [called |-> FALSE]
    /\ f_out' = [called |-> TRUE,
                 bounds |-> GetPoCXCompressionBounds(f_in.nHeight,
                                                     f_in.nSubsidyHalvingInterval)]
    /\ UNCHANGED <<schedVars, assignVars, txVars, chainVars, rpcVars, f_in, forgeVars>>

\* pocx_tests.cpp:40,63
CallShabal256 ==
    /\ f_in.fn = "Shabal256"
    /\ f_out = [called |-> FALSE]
    /\ f_out' = [called |-> TRUE,
                 hash |-> Shabal256(f_in.data, f_in.len, f_in.pre_term, f_in.term)]
    /\ UNCHANGED <<schedVars, assignVars, txVars, chainVars, rpcVars, f_in, forgeVars>>

\* pocx_tests.cpp:75,86
CallShabal256Lite ==
    /\ f_in.fn = "Shabal256Lite"
    /\ f_out = [called |-> FALSE]
    /\ f_out' = [called |-> TRUE, result |-> Shabal256Lite(f_in.data, f_in.gensig)]
    /\ UNCHANGED <<schedVars, assignVars, txVars, chainVars, rpcVars, f_in, forgeVars>>

\* time_bending.cpp:12-29, called as at time_bending.cpp:46 and 75
CallIntCubeRoot ==
    /\ f_in.fn = "int_cuberoot_u256"
    /\ f_out = [called |-> FALSE]
    /\ f_out' = [called |-> TRUE, root |-> int_cuberoot_u256(f_in.x)]
    /\ UNCHANGED <<schedVars, assignVars, txVars, chainVars, rpcVars, f_in, forgeVars>>

InitFn ==
    /\ InitScheduler
    /\ tip = QueueTip
    /\ nodeContextOk
    /\ now = 0
    /\ AssignIdle
    /\ TxIdle
    /\ ChainIdle
    /\ RpcIdle
    /\ ForgeIdle
    /\ f_out = [called |-> FALSE]
    /\ \/ \E era \in 1..MaxEra, h \in 0..(32 * MaxEra) :
             /\ h <= 32 * era
             /\ f_in = [fn |-> "GetPoCXCompressionBounds", nHeight |-> h,
                        nSubsidyHalvingInterval |-> era]
       \/ f_in \in ShabalTestVectors
       \/ \E x \in 0..MaxCubeInput : f_in = [fn |-> "int_cuberoot_u256", x |-> x]

NextFn ==
    \/ CallGetPoCXCompressionBounds
    \/ CallShabal256
    \/ CallShabal256Lite
    \/ CallIntCubeRoot

SpecFn == InitFn /\ [][NextFn]_vars

(***************************************************************************)
(* ForgeBlock step by step: BuildBlock resolves the coinbase payee under   *)
(* cs_main, the host chain creates the template on its tip of that moment, *)
(* SignPoCXBlockWithAvailableWallet resolves the signer under cs_main      *)
(* again, SignPoCXBlock writes public key and signature, SubmitForgedBlock *)
(* hands the block over.  Between the steps the host chain connects        *)
(* blocks, which moves the height and the assignment records.  The block   *)
(* at height h is named h.                                                 *)
(***************************************************************************)
\* ForgeBlock calls in one behaviour that reach ProcessNewBlock
MaxForges == 2
\* primitives/block.h:99,100
PUBKEY_LEN == 33
SIG_LEN == 65

\* PoCXProof::SetNull
NullProof == [seed |-> 0, account_id |-> NoAddress, compression |-> 0, nonce |-> 0, quality |-> 0]
\* PoCXProof::IsNull
IsNull(proof) == proof.nonce = 0 /\ proof.account_id = NoAddress

\* std::array<uint8_t, N>::fill(0)
NullPubKey == [i \in 1..PUBKEY_LEN |-> 0]
NullSignature == [i \in 1..SIG_LEN |-> 0]

\* the compressed public key of a key id, and the key id (HASH160) of a public key
PubKeyOf(keyid) == [i \in 1..PUBKEY_LEN |-> IF i = 1 THEN 2 ELSE keyid]
KeyIdOf(pubkey) == pubkey[2]
\* the compact signature a key makes: the bytes after the header byte are
\* the key's
SignatureOf(keyid, size) == [i \in 1..size |-> IF i = 1 THEN 31 ELSE keyid]

\* std::nullopt of std::optional<std::array<uint8_t, 20>>
NullOpt == 0 - 1
\* an account id that is not 40 hex digits
BadAccountId == 0 - 2
\* encoding.cpp:64-88: the 20 bytes of an account id of 40 hex digits, the
\* all-zero one included
ParseAccountID(account_id) == IF account_id = BadAccountId THEN NullOpt ELSE account_id

\* block_builder.cpp:26-30: P2WPKH of the effective signer
CreateCoinbaseScript(effective_signer_account) ==
    [witness_v0_keyhash |-> effective_signer_account]

\* consensus/merkle.h: the root over the block's transactions
BlockMerkleRoot(block) == <<"merkle", block.vtx>>

\* a header hash that covers the signature as it stands
GetHashWithSignature(block) ==
    <<block.hashPrevBlock, block.hashMerkleRoot, block.nHeight, block.pocxProof,
      block.vchPubKey, block.vchSignature>>

\* primitives/block.cpp:14-25: the hash of the serialised header of a copy
\* whose signature is filled with zeroes; HashWriter is collision free here
GetHash(block) ==
    <<block.hashPrevBlock, block.hashMerkleRoot, block.nHeight, block.pocxProof,
      block.vchPubKey, NullSignature>>

\* block_builder.cpp:32-40 and getBlock(): the host chain's template on top of
\* its tip, paying the script; the merkle root is the host's to set or not
CreateTemplate(coinbase_script, height, root_set) ==
    LET block == [hashPrevBlock |-> height,
                  nHeight |-> height + 1,
                  vtx |-> <<[vout |-> coinbase_script]>>,
                  hashMerkleRoot |-> <<>>,
                  pocxProof |-> NullProof,
                  vchPubKey |-> NullPubKey,
                  vchSignature |-> NullSignature]
    IN IF root_set THEN [block EXCEPT !.hashMerkleRoot = BlockMerkleRoot(block)] ELSE block

\* a proof filled in without the merkle root being recomputed
FillPoCXProofKeepsRoot(block, account_id, seed, nonce, quality, compression) ==
    [block EXCEPT !.pocxProof = [seed |-> seed, account_id |-> account_id,
                                 compression |-> compression, nonce |-> nonce,
                                 quality |-> quality]]

\* block_builder.cpp:42-65
FillPoCXProof(block, account_id, seed, nonce, quality, compression) ==
    [block EXCEPT !.pocxProof = [seed |-> seed, account_id |-> account_id,
                                 compression |-> compression, nonce |-> nonce,
                                 quality |-> quality],
                  !.hashMerkleRoot = BlockMerkleRoot(block)]

\* the assignment payloads of a block the host chain connects
ForgePayloads ==
    {<<>>} \cup {<<[kind |-> k, plot |-> 1, forging |-> f]>> :
                     k \in {"assign", "revoke"}, f \in ForgingAddresses}

\* what the steps of ForgeBlock leave alone
forgeFrame == <<schedVars, txVars, chainVars, rpcVars, fnVars, a_plot, a_height, a_signer, a_state>>

\* scheduler.cpp:309-329: the candidate's fields and the node context
FgCall ==
    /\ fg_pc = "idle"
    /\ Len(fg_sink) < MaxForges
    /\ \E account_id \in {1, NoAddress, BadAccountId}, seed \in Seeds, nonce \in 0..1,
          quality \in {50}, compression \in Compressions, has_forging \in BOOLEAN :
           /\ fg_forging' = IF has_forging
                            THEN [account_id |-> account_id, seed |-> seed, nonce |-> nonce,
                                  quality |-> quality, compression |-> compression]
                            ELSE NoForging
           /\ fg_pc' = IF ~has_forging \/ ~nodeContextOk THEN "return" ELSE "payee"
    /\ UNCHANGED <<fg_height, fg_wallet, fg_payee, fg_signer, fg_block, fg_final_hash,
                   fg_sink, a_view>>
    /\ UNCHANGED forgeFrame

\* block_builder.cpp:78-102: parse the account, then the effective signer
\* of the next height under cs_main
FgPayee ==
    /\ fg_pc = "payee"
    /\ IF ParseAccountID(fg_forging.account_id) = NullOpt
       THEN fg_pc' = "return" /\ UNCHANGED fg_payee
       ELSE /\ fg_payee' = GetEffectiveSigner(ParseAccountID(fg_forging.account_id),
                                              fg_height + 1, a_view)
            /\ fg_pc' = "template"
    /\ UNCHANGED <<fg_forging, fg_height, fg_wallet, fg_signer, fg_block, fg_final_hash,
                   fg_sink, a_view>>
    /\ UNCHANGED forgeFrame

\* block_builder.cpp:104-122: coinbase script, template, proof
FgTemplate ==
    /\ fg_pc = "template"
    /\ \E created \in BOOLEAN, root_set \in BOOLEAN :
           IF ~created
           THEN fg_pc' = "return" /\ UNCHANGED fg_block
           ELSE /\ fg_block' = FillPoCXProof(
                                   CreateTemplate(CreateCoinbaseScript(fg_payee),
                                                  fg_height, root_set),
                                   fg_forging.account_id, fg_forging.seed, fg_forging.nonce,
                                   fg_forging.quality, fg_forging.compression)
                /\ fg_pc' = "signer"
    /\ UNCHANGED <<fg_forging, fg_height, fg_wallet, fg_payee, fg_signer, fg_final_hash,
                   fg_sink, a_view>>
    /\ UNCHANGED forgeFrame

\* wallet_signing.cpp:159-187: the effective signer of the block's height
\* under cs_main
FgSigner ==
    /\ fg_pc = "signer"
    /\ IF ~wallet_loader \/ ParseAccountID(fg_forging.account_id) = NullOpt
       THEN fg_pc' = "return" /\ UNCHANGED fg_signer
       ELSE /\ fg_signer' = GetEffectiveSigner(ParseAccountID(fg_forging.account_id),
                                               fg_block.nHeight, a_view)
            /\ fg_pc' = "sign"
    /\ UNCHANGED <<fg_forging, fg_height, fg_wallet, fg_payee, fg_block, fg_final_hash,
                   fg_sink, a_view>>
    /\ UNCHANGED forgeFrame

\* SignPoCXBlock that takes the hash before the public key is in the header
SignPoCXBlockHashFirst(block, keyid, outcome) ==
    IF outcome = "no_pubkey" THEN [ok |-> FALSE, block |-> block, final_hash |-> <<>>]
    ELSE LET final_hash == GetHash(block)
             with_key == [block EXCEPT !.vchPubKey = PubKeyOf(keyid)]
         IN IF outcome = "sign_failed"
            THEN [ok |-> FALSE, block |-> with_key, final_hash |-> final_hash]
            ELSE IF outcome = "bad_size"
            THEN [ok |-> FALSE, block |-> with_key, final_hash |-> final_hash]
            ELSE [ok |-> TRUE,
                  block |-> [with_key EXCEPT !.vchSignature = SignatureOf(keyid, SIG_LEN)],
                  final_hash |-> final_hash]

\* wallet_signing.cpp:67-149: public key into the header, the hash of the
\* header, the signature over it; the wallet decides whether each step works
SignPoCXBlock(block, keyid, outcome) ==
    IF outcome = "no_pubkey" THEN [ok |-> FALSE, block |-> block, final_hash |-> <<>>]
    ELSE LET with_key == [block EXCEPT !.vchPubKey = PubKeyOf(keyid)]
             final_hash == GetHash(with_key)
         IN IF outcome = "sign_failed"
            THEN [ok |-> FALSE, block |-> with_key, final_hash |-> final_hash]
            ELSE IF outcome = "bad_size"
            THEN [ok |-> FALSE, block |-> with_key, final_hash |-> final_hash]
            ELSE [ok |-> TRUE,
                  block |-> [with_key EXCEPT !.vchSignature = SignatureOf(keyid, SIG_LEN)],
                  final_hash |-> final_hash]

\* wallet_signing.cpp:189-215: the first wallet that has the effective
\* signer's key signs
FgSign ==
    /\ fg_pc = "sign"
    /\ IF fg_signer \notin fg_wallet
       THEN fg_pc' = "return" /\ UNCHANGED <<fg_block, fg_final_hash>>
       ELSE \E outcome \in {"no_pubkey", "sign_failed", "bad_size", "ok"} :
                LET signed == SignPoCXBlock(fg_block, fg_signer, outcome)
                IN /\ fg_block' = signed.block
                   /\ fg_final_hash' = signed.final_hash
                   /\ fg_pc' = IF signed.ok THEN "submit" ELSE "return"
    /\ UNCHANGED <<fg_forging, fg_height, fg_wallet, fg_payee, fg_signer, fg_sink, a_view>>
    /\ UNCHANGED forgeFrame

\* scheduler.cpp:359-391: ProcessNewBlock
FgSubmit ==
    /\ fg_pc = "submit"
    /\ fg_sink' = Append(fg_sink, fg_block)
    /\ fg_pc' = "return"
    /\ UNCHANGED <<fg_forging, fg_height, fg_wallet, fg_payee, fg_signer, fg_block,
                   fg_final_hash, a_view>>
    /\ UNCHANGED forgeFrame

\* ForgeBlock returns; its locals are gone
FgReturn ==
    /\ fg_pc = "return"
    /\ fg_pc' = "idle"
    /\ fg_forging' = NoForging
    /\ fg_payee' = NoAddress
    /\ fg_signer' = NoAddress
    /\ fg_block' = [nHeight |-> 0]
    /\ fg_final_hash' = <<>>
    /\ UNCHANGED <<fg_height, fg_wallet, fg_sink, a_view>>
    /\ UNCHANGED forgeFrame

\* the host chain connects a block: the height grows and the block's
\* assignment payloads reach the coins view
FgConnectTip ==
    /\ fg_height < MaxHeight
    /\ fg_height' = fg_height + 1
    /\ \E payloads \in ForgePayloads :
           a_view' = ConnectPayloads(a_view, <<>>, payloads, fg_height + 1).view
    /\ UNCHANGED <<fg_pc, fg_forging, fg_wallet, fg_payee, fg_signer, fg_block,
                   fg_final_hash, fg_sink>>
    /\ UNCHANGED forgeFrame

InitForge ==
    /\ InitScheduler
    /\ tip = QueueTip
    /\ now = 0
    /\ AssignIdle
    /\ TxIdle
    /\ ChainIdle
    /\ FnIdle
    /\ g_pocx_scheduler = 0
    /\ g_scheduler_init_mutex = 0
    /\ constructed = 0
    /\ wallet_loader \in BOOLEAN
    /\ rpc_calls = 0
    /\ rpc_pc = [t \in RpcThreads |-> "idle"]
    /\ rpc_req = [t \in RpcThreads |-> NoSubmission]
    /\ rpc_res = [t \in RpcThreads |-> [kind |-> "none"]]
    /\ fg_pc = "idle"
    /\ fg_forging = NoForging
    /\ fg_height = 0
    /\ fg_wallet \in SUBSET {1, 3}
    /\ fg_payee = NoAddress
    /\ fg_signer = NoAddress
    /\ fg_block = [nHeight |-> 0]
    /\ fg_final_hash = <<>>
    /\ fg_sink = <<>>

NextForge ==
    \/ FgCall \/ FgPayee \/ FgTemplate \/ FgSigner \/ FgSign \/ FgSubmit \/ FgReturn
    \/ FgConnectTip

SpecForge == InitForge /\ [][NextForge]_vars

(***************************************************************************)
(* Properties of the scheduler and of the submission queue.                *)
(***************************************************************************)
QueueNonces == [i \in DOMAIN m_submission_queue |-> m_submission_queue[i].nonce]

\* the earliest entry of the run whose quality is the minimum of the run
EarliestBest(r) ==
    CHOOSE i \in DOMAIN r :
        /\ \A j \in DOMAIN r : r[i].quality <= r[j].quality
        /\ \A j \in DOMAIN r : j < i => r[i].quality < r[j].quality

\* C1: the candidate is the earliest processed non-stale submission of
\* minimum quality since the candidate was last null; a submission replaces
\* the candidate only if its quality is strictly lower, and one of equal
\* or higher quality leaves every field of the candidate unchanged.
C1_StrictlyBetterWins ==
    /\ [](HasForging <=> run # <<>>)
    /\ [](HasForging =>
             /\ m_current_forging.nonce = run[EarliestBest(run)].nonce
             /\ m_current_forging.quality = run[EarliestBest(run)].quality)
    /\ [][(pc = "ps_ctx" /\ HasForging /\ submission.quality >= m_current_forging.quality)
             => m_current_forging' = m_current_forging]_vars

\* a second submission of the candidate's quality was processed and the
\* first one is still the candidate
C1_Witness ==
    /\ HasForging
    /\ Len(run) = 2
    /\ run[1].quality = run[2].quality
    /\ m_current_forging.nonce = run[1].nonce

CandidateMatchesTip ==
    /\ nodeContextOk
    /\ m_current_forging.height = GetNewBlockContext(tip).height
    /\ m_current_forging.generation_sig = GetNewBlockContext(tip).generation_signature
    /\ m_current_forging.base_target = GetNewBlockContext(tip).base_target

\* C2: no candidate reaches the block submission sink twice and ForgeBlock
\* runs at most once per candidate (never timed and defensive both); a
\* candidate whose deadline fires with height, generation signature and
\* base target unchanged is forged, and if building and signing succeed
\* exactly one block, carrying its nonce, is handed to the sink.
C2_ExactlyOnce ==
    /\ [](\A i, j \in DOMAIN sink : sink[i].nonce = sink[j].nonce => i = j)
    /\ [](\A i, j \in DOMAIN forge_log : forge_log[i].nonce = forge_log[j].nonce => i = j)
    /\ [][(pc = "wd_ctx" /\ pc' # "wd_ctx" /\ CandidateMatchesTip) => pc' = "wd_forge"]_vars
    /\ [][(pc = "wd_forge" /\ pc' # "wd_forge") =>
            /\ Len(forge_log') = Len(forge_log) + 1
            /\ SubSeq(forge_log', 1, Len(forge_log)) = forge_log
            /\ forge_log'[Len(forge_log')].nonce = m_current_forging.nonce
            /\ forge_log'[Len(forge_log')].path = "timed"
            /\ IF \/ forge_log'[Len(forge_log')].result = "accepted"
                  \/ forge_log'[Len(forge_log')].result = "rejected"
               THEN /\ Len(sink') = Len(sink) + 1
                    /\ SubSeq(sink', 1, Len(sink)) = sink
                    /\ sink'[Len(sink')].nonce = m_current_forging.nonce
               ELSE sink' = sink]_vars

\* two candidates were forged at their deadlines, one block each
C2_Witness ==
    /\ Len(sink) = 2
    /\ Len(forge_log) = 2
    /\ \A i \in DOMAIN forge_log : forge_log[i].path = "timed"

\* C3: the queue never holds more than MAX_QUEUE_SIZE entries; a
\* SubmitNonce call on a full queue returns false and leaves the queue
\* unchanged, any other call appends exactly its entry and returns true.
C3_QueueBounded ==
    /\ [](Len(m_submission_queue) <= MAX_QUEUE_SIZE)
    /\ [][next_nonce' # next_nonce =>
            IF Len(m_submission_queue) = MAX_QUEUE_SIZE
            THEN /\ ret' = "false"
                 /\ m_submission_queue' = m_submission_queue
            ELSE /\ ret' = "true"
                 /\ Len(m_submission_queue') = Len(m_submission_queue) + 1
                 /\ SubSeq(m_submission_queue', 1, Len(m_submission_queue))
                        = m_submission_queue
                 /\ m_submission_queue'[Len(m_submission_queue')].nonce = next_nonce]_vars

\* a call found the queue full and was refused
C3_Witness ==
    /\ ret = "false"
    /\ Len(m_submission_queue) = MAX_QUEUE_SIZE

\* the submission's context is not the one the next block on b needs
StaleOn(sub, b) ==
    \/ sub.expected_height # BlockHeight(b) + 1
    \/ sub.generation_signature # GetNextGenerationSignature(BlockIndex, b)

\* C4: a dequeued submission whose height or generation signature does not
\* fit the tip is dropped by the step that evaluates it: it does not become
\* the candidate then or later, and it never appears in the queue again.
C4_StaleDiscarded ==
    /\ [][(pc = "ps_ctx" /\ pc' # "ps_ctx" /\ StaleOn(submission, tip)) =>
             /\ m_current_forging' = m_current_forging
             /\ submission \in stale'
             /\ submission' = NoSubmission]_vars
    /\ [](\A st \in stale :
             /\ HasForging => m_current_forging.nonce # st.nonce
             /\ \A i \in DOMAIN m_submission_queue : m_submission_queue[i].nonce # st.nonce
             /\ \A i \in DOMAIN run : run[i].nonce # st.nonce
             /\ submission # NoSubmission => submission.nonce # st.nonce)
    /\ [](\A i \in DOMAIN m_submission_queue :
             \A j \in DOMAIN dequeued : m_submission_queue[i].nonce # dequeued[j])

\* a discarded submission's context has become current after a tip change,
\* and another submission is the candidate
C4_Witness ==
    /\ HasForging
    /\ \E st \in stale : ~StaleOn(st, tip)

\* C5: when the candidate is given up while the tip is a block built on the
\* candidate's tip with a higher quality (and the tip has not moved since
\* the worker read it), the scheduler has forged a block for the candidate.
C5_DefensiveForge ==
    [][(/\ HasForging
        /\ pprev(tip) = m_current_forging.tip_block_hash
        /\ BlockQuality(tip) > m_current_forging.quality
        /\ pc = "ps_def" => current_tip = tip
        /\ m_current_forging' = NoForging)
          => /\ Len(forge_log') = Len(forge_log) + 1
             /\ forge_log'[Len(forge_log')].nonce = m_current_forging.nonce]_vars

\* C6: once Shutdown() has set the flag, the worker thread terminates and
\* Shutdown() returns from the join.
C6_ShutdownTerminates == m_shutdown ~> (pc = "stopped" /\ sd_pc = "done")

\* Shutdown() has returned; the worker stopped while it held a candidate
C6_Witness ==
    /\ sd_pc = "done"
    /\ pc = "stopped"
    /\ HasForging

\* C7: once Shutdown() has been called, a SubmitNonce call returns false
\* and leaves the queue unchanged.
C7_RejectAfterShutdown ==
    [][(m_shutdown /\ next_nonce' # next_nonce) =>
          /\ ret' = "false"
          /\ m_submission_queue' = m_submission_queue]_vars

\* C8: the nonces pushed, in push order, are the nonces popped, in pop
\* order, followed by the nonces waiting in the queue, in queue order:
\* nothing is reordered, duplicated or lost.
C8_Fifo ==
    /\ [](enqueued = dequeued \o QueueNonces)
    /\ [](\A i, j \in DOMAIN enqueued : i < j => enqueued[i] < enqueued[j])
    /\ [][dequeued' # dequeued =>
             /\ dequeued' = Append(dequeued, Head(m_submission_queue).nonce)
             /\ submission' = Head(m_submission_queue)
             /\ m_submission_queue' = Tail(m_submission_queue)]_vars

\* the worker has taken one submission and two more wait together
C8_Witness ==
    /\ Len(m_submission_queue) = 2
    /\ Len(dequeued) = 1

(***************************************************************************)
(* Properties of the assignment queries.                                   *)
(***************************************************************************)
\* the design document's table of derived states
DerivedState(view, plot, h) ==
    IF view[plot] = NoAssignment THEN "UNASSIGNED"
    ELSE IF ~view[plot].revoked /\ h < view[plot].assignment_effective_height THEN "ASSIGNING"
    ELSE IF ~view[plot].revoked THEN "ASSIGNED"
    ELSE IF h < view[plot].revocation_effective_height THEN "REVOKING"
    ELSE "REVOKED"

C10_DerivedState ==
    a_state # "none" => a_state = DerivedState(a_view, a_plot, a_height)

\* a query exactly at the effective height of a non-revoked record
C10_Witness ==
    /\ a_state = "ASSIGNED"
    /\ a_view[a_plot] # NoAssignment
    /\ a_height = a_view[a_plot].assignment_effective_height

\* the position of a derived state in the order
\* UNASSIGNED < ASSIGNING < ASSIGNED < REVOKING < REVOKED
StateRank(state) ==
    IF state = "UNASSIGNED" THEN 0
    ELSE IF state = "ASSIGNING" THEN 1
    ELSE IF state = "ASSIGNED" THEN 2
    ELSE IF state = "REVOKING" THEN 3
    ELSE 4

\* C11: for a fixed stored record the derived state never decreases as the
\* height grows: for all h1 <= h2 the state at h1 precedes or equals the
\* state at h2, and a later query at a greater or equal height of the same
\* plot never returns an earlier state than the query before it.
C11_StateMonotone ==
    /\ [](\A plot \in PlotAddresses : \A h1 \in 0..MaxHeight : \A h2 \in h1..MaxHeight :
             StateRank(GetAssignmentState(plot, h1, a_view))
                 <= StateRank(GetAssignmentState(plot, h2, a_view)))
    /\ [][(a_state # "none" /\ a_state' # "none" /\ a_plot' = a_plot /\ a_height <= a_height')
             => StateRank(a_state) <= StateRank(a_state')]_vars

\* a query returned ASSIGNED for a record that is ASSIGNING at height 0
C11_Witness ==
    /\ a_state = "ASSIGNED"
    /\ a_height > 0
    /\ GetAssignmentState(a_plot, 0, a_view) = "ASSIGNING"

(***************************************************************************)
(* Properties of the functions that process assignment transactions.       *)
(***************************************************************************)
\* C12: connecting a block of assignment and revocation payloads and then
\* disconnecting it by its undo records, last to first, restores every
\* assignment record exactly; the first undo record is ADDED exactly when
\* the plot had no record, and a MODIFIED or REVOKED undo carries the full
\* record the plot had before.
C12_UndoRestores ==
    /\ [](u_pc = "disconnected" => a_view = u_before)
    /\ [](u_pc # "none" /\ vforgingundo # <<>> =>
            LET u == vforgingundo[1]
                before == u_before[u.assignment.plotAddress]
            IN /\ u.type = "ADDED" <=> before = NoAssignment
               /\ u.type # "ADDED" => u.assignment = before
               /\ u.type = "REVOKED" => ~before.revoked)
    /\ [][(u_pc = "connected" /\ u_pc' = "disconnected") =>
            \A plot \in PlotAddresses :
                (\A i \in DOMAIN vforgingundo :
                     vforgingundo[i].assignment.plotAddress # plot)
                    => a_view'[plot] = a_view[plot]]_vars

\* a block that modified a record and then revoked it was disconnected
C12_Witness ==
    /\ u_pc = "disconnected"
    /\ Len(vforgingundo) = 2
    /\ vforgingundo[1].type = "MODIFIED"
    /\ vforgingundo[2].type = "REVOKED"
    /\ vforgingundo[1].assignment.plotAddress = vforgingundo[2].assignment.plotAddress

\* C13: parsing the script that CreateAssignmentOpReturn builds for a plot
\* and a forging address returns that pair, and parsing the script that
\* CreateRevocationOpReturn builds for a plot address returns that address.
C13_RoundTrip ==
    op_result.called =>
        \A p \in [1..ADDR_LEN -> 1..2], f \in [1..ADDR_LEN -> 1..2] :
            /\ script = CreateAssignmentOpReturn(p, f) => op_result.assignment = <<p, f>>
            /\ script = CreateRevocationOpReturn(p) => op_result.revocation = <<p>>

\* a created assignment script with different plot and forging addresses
\* was parsed
C13_Witness ==
    /\ op_result.called
    /\ script = CreateAssignmentOpReturn(<<1, 2>>, <<2, 1>>)
    /\ op_result.assignment = <<<<1, 2>>, <<2, 1>>>>

\* the script is OP_RETURN, the push prefix, and size bytes starting with
\* the marker, and nothing else
HasOnePush(scr, prefix, size, marker) ==
    /\ Len(scr) = 1 + Len(prefix) + size
    /\ SubSeq(scr, 1, 1 + Len(prefix)) = <<OP_RETURN>> \o prefix
    /\ SubSeq(scr, 2 + Len(prefix), 5 + Len(prefix)) = marker

\* one push in any of the four encodings of a push of size bytes
ExactlyOnePush(scr, size, marker) ==
    \/ HasOnePush(scr, <<size>>, size, marker)
    \/ HasOnePush(scr, <<76, size>>, size, marker)
    \/ HasOnePush(scr, <<77, size, 0>>, size, marker)
    \/ HasOnePush(scr, <<78, size, 0, 0, 0>>, size, marker)

\* C14: IsAssignmentOpReturn (IsRevocationOpReturn) accepts a script if and
\* only if it is OP_RETURN followed by one push of exactly the assignment
\* (revocation) payload size whose first four bytes are the marker, with
\* nothing after the push; no script is accepted as both.
C14_ExactPayload ==
    op_result.called =>
        /\ op_result.is_assignment
              <=> ExactlyOnePush(script, 4 + 2 * ADDR_LEN, ASSIGNMENT_MARKER)
        /\ op_result.is_revocation
              <=> ExactlyOnePush(script, 4 + ADDR_LEN, REVOCATION_MARKER)
        /\ ~(op_result.is_assignment /\ op_result.is_revocation)

\* a created assignment script followed by one more byte was rejected
C14_Witness ==
    /\ op_result.called
    /\ ~op_result.is_assignment
    /\ Len(script) = 2 + 4 + 2 * ADDR_LEN + 1
    /\ SubSeq(script, 1, Len(script) - 1) = CreateAssignmentOpReturn(<<1, 1>>, <<1, 1>>)

\* C15: VerifyPlotOwnership returns true if and only if some input spends a
\* coin that is in the view and pays to a P2WPKH of the plot address;
\* missing coins and other script types never make it true.
C15_PlotOwnership ==
    own_result # "none" =>
        (own_result = "true" <=>
            \E i \in DOMAIN own_tx :
                /\ Coins[own_tx[i]].kind # "spent"
                /\ Coins[own_tx[i]].kind = "WitnessV0KeyHash"
                /\ Coins[own_tx[i]].hash = own_plot)

\* the first input's coin is missing and the second input proves ownership
C15_Witness ==
    /\ own_result = "true"
    /\ Len(own_tx) = 2
    /\ Coins[own_tx[1]].kind = "spent"


(***************************************************************************)
(* Properties of the difficulty adjustment, checked under SpecChain.       *)
(***************************************************************************)
\* C16: for every chain and every block of it taken as the last block, the
\* next base target is positive and at most the genesis base target
\* max(1, (2^60 if low capacity, else 2^42) / target spacing), and it is
\* exactly the genesis base target when the last block is the genesis block.
C16_BaseTargetBounds ==
    LET power == IF d_params.fPoCXLowCapacityCalibration THEN POWER_60 ELSE POWER_42
        GENESIS == Max(1, power \div d_params.nPowTargetSpacing)
    IN \A b \in DOMAIN d_index :
          LET next == GetNextBaseTarget(d_index, b, d_params)
          IN /\ 0 < next
             /\ next <= GENESIS
             /\ d_index[b].nHeight = 0 => next = GENESIS
             /\ d_index[b].nHeight > 0 => d_index[b].nBaseTarget \in 1..GENESIS

\* the blocks fell behind the target spacing at the genesis base target: the
\* adjustment alone would exceed it, and the result is the genesis base target
C16_Witness ==
    \E b \in DOMAIN d_index :
        /\ d_index[b].nHeight >= 2
        /\ CalculateGenesisBaseTarget(d_params.nPowTargetSpacing,
                                      d_params.fPoCXLowCapacityCalibration) > 1
        /\ GetNextBaseTargetUncapped(d_index, b, d_params)
              > GetNextBaseTarget(d_index, b, d_params)
        /\ d_index[b].nTime - d_index[d_index[b].pprev].nTime > d_params.nPowTargetSpacing

(***************************************************************************)
(* Properties of the submit_nonce handler, checked under SpecRpc.          *)
(***************************************************************************)
\* C17: under concurrent submit_nonce calls at most one PoCXScheduler is ever
\* constructed, the global pointer holds that instance from then on, every
\* call that reaches SubmitNonce makes it on that instance, and every
\* submission an answer reports as accepted is in that instance's queue.
C17_OneScheduler ==
    /\ constructed <= 1
    /\ g_pocx_scheduler = constructed
    /\ \A t \in RpcThreads :
          /\ rpc_pc[t] = "submit" => g_pocx_scheduler = 1
          /\ (rpc_res[t].kind = "result" /\ rpc_res[t].accepted)
                => /\ rpc_res[t].scheduler = 1
                   /\ \E i \in 1..Len(m_submission_queue) :
                         m_submission_queue[i].nonce = rpc_req[t].nonce

\* two calls overlap: the one that arrived first is still about to call
\* SubmitNonce when the later one has been answered, and one scheduler serves both
C17_Witness ==
    /\ constructed = 1
    /\ rpc_pc[2] = "submit"
    /\ rpc_pc[1] = "done"
    /\ rpc_res[1].kind = "result"
    /\ rpc_res[1].accepted
    /\ rpc_req[2].nonce < rpc_req[1].nonce

\* C18: a submission is enqueued only after all checks of its call passed;
\* a call with a failing check enqueues nothing and is answered with
\* accepted = false and an error.
C18_ChecksBeforeEnqueue ==
    \A t \in RpcThreads :
        rpc_req[t] # NoSubmission =>
            LET passed == SubmitNonceChecks(rpc_req[t], GetNewBlockContext(tip),
                                            wallet_loader, a_view).type = "none"
                queued == \E i \in 1..Len(enqueued) : enqueued[i] = rpc_req[t].nonce
            IN /\ queued => passed
               /\ (~passed /\ rpc_pc[t] = "done")
                     => /\ ~queued
                        /\ rpc_res[t].kind = "result"
                        /\ ~rpc_res[t].accepted

\* what holds of a call with a failing check: nothing is enqueued and the
\* call ends in an error, the handler's own or the RPC server's
RpcFailureEnqueuesNothing ==
    \A t \in RpcThreads :
        rpc_req[t] # NoSubmission =>
            LET passed == SubmitNonceChecks(rpc_req[t], GetNewBlockContext(tip),
                                            wallet_loader, a_view).type = "none"
                queued == \E i \in 1..Len(enqueued) : enqueued[i] = rpc_req[t].nonce
            IN /\ queued => passed
               /\ (~passed /\ rpc_pc[t] = "done")
                     => /\ ~queued
                        /\ rpc_res[t].kind \in {"result", "jsonrpc_error"}
                        /\ rpc_res[t].kind = "result" => ~rpc_res[t].accepted

(***************************************************************************)
(* Properties of failed forges, checked under Spec.                        *)
(***************************************************************************)
\* C19, as stated: when a forge fails because signing fails (key store
\* unavailable or wallet locked), no block is handed to the sink and the
\* scheduler keeps the candidate.
C19_SignFailureKeepsCandidate ==
    [][(/\ Len(forge_log') = Len(forge_log) + 1
        /\ forge_log'[Len(forge_log')].result = "sign_failed")
          => /\ sink' = sink
             /\ m_current_forging' = m_current_forging]_vars

\* C19, amended: when a forge fails because signing fails, no block is
\* handed to the sink and the scheduler drops the candidate, on the timed
\* and on the defensive path alike.
C19_SignFailureDropsCandidate ==
    [][(/\ Len(forge_log') = Len(forge_log) + 1
        /\ forge_log'[Len(forge_log')].result = "sign_failed")
          => /\ sink' = sink
             /\ HasForging
             /\ forge_log'[Len(forge_log')].nonce = m_current_forging.nonce
             /\ m_current_forging' = NoForging]_vars

\* a candidate's deadline fired, its block was built and signing failed
C19_Witness ==
    /\ forge_log # <<>>
    /\ forge_log[Len(forge_log)].result = "sign_failed"
    /\ forge_log[Len(forge_log)].path = "timed"
    /\ m_current_forging = NoForging
    /\ sink = <<>>

\* C20: when a step of a forge fails (build, signing, or the sink rejects the
\* block) the candidate is discarded in the same step, and the scheduler
\* never comes back to it: the failed submission is neither the candidate
\* nor queued afterwards, and no later forge carries its nonce.
C20_FailureDiscardsCandidate ==
    /\ [][(/\ Len(forge_log') = Len(forge_log) + 1
            /\ forge_log'[Len(forge_log')].result # "accepted")
              => m_current_forging' = NoForging]_vars
    /\ [](\A i \in DOMAIN forge_log :
            forge_log[i].result # "accepted"
              => /\ m_current_forging.nonce # forge_log[i].nonce
                 /\ \A k \in DOMAIN m_submission_queue :
                       m_submission_queue[k].nonce # forge_log[i].nonce
                 /\ \A j \in DOMAIN forge_log :
                       j > i => forge_log[j].nonce # forge_log[i].nonce)

\* a forge failed in building and a later candidate was forged and accepted
C20_Witness ==
    /\ Len(forge_log) = 2
    /\ forge_log[1].result = "build_failed"
    /\ forge_log[2].result = "accepted"
    /\ Len(sink) = 1

(***************************************************************************)
(* Properties of the consensus parameter and hash functions, checked under *)
(* SpecFn.                                                                 *)
(***************************************************************************)
\* C21: GetPoCXCompressionBounds(h, era) has min_compression 1 below era and
\* 2, 3, 4, 5, 6 from the heights 1, 3, 7, 15, 31 times era; min_compression
\* is within 1..6 and does not decrease with the height, and
\* target_compression is min_compression + 1.
C21_CompressionBounds ==
    (f_in.fn = "GetPoCXCompressionBounds" /\ f_out.called) =>
        LET h == f_in.nHeight
            era == f_in.nSubsidyHalvingInterval
            min == f_out.bounds.nPoCXMinCompression
        IN /\ min \in 1..6
           /\ f_out.bounds.nPoCXTargetCompression = min + 1
           /\ h < era <=> min = 1
           /\ (era <= h /\ h < 3 * era) <=> min = 2
           /\ (3 * era <= h /\ h < 7 * era) <=> min = 3
           /\ (7 * era <= h /\ h < 15 * era) <=> min = 4
           /\ (15 * era <= h /\ h < 31 * era) <=> min = 5
           /\ 31 * era <= h <=> min = 6
           /\ \A lower \in 0..h :
                 GetPoCXCompressionBounds(lower, era).nPoCXMinCompression <= min

\* the bounds of the first height of the last step, in eras of more than one block
C21_Witness ==
    /\ f_in.fn = "GetPoCXCompressionBounds"
    /\ f_out.called
    /\ f_in.nSubsidyHalvingInterval > 1
    /\ f_in.nHeight = 31 * f_in.nSubsidyHalvingInterval
    /\ f_out.bounds.nPoCXMinCompression = 6

\* C22: Shabal256 and Shabal256Lite reproduce the pinned test vectors A and B
\* (the 32 output bytes) and C and D (the 64-bit result) bit for bit.
C22_TestVectors ==
    f_out.called =>
        /\ (f_in.fn = "Shabal256" /\ f_in.test = "A") =>
               f_out.hash = <<\hDA, \h8F, \h08, \hC0, \h2A, \h67, \hBA, \h9A, \h56, \hBD, \hD0, \h79,
                           \h8E, \h48, \hAE, \h07, \h14, \h21, \h5E, \h09, \h3B, \h5B, \h85, \h06,
                           \h49, \hA3, \h77, \h18, \h99, \h3F, \h54, \hA2>>
        /\ (f_in.fn = "Shabal256" /\ f_in.test = "B") =>
               f_out.hash = <<\hB4, \h9F, \h34, \hBF, \h51, \h86, \h4C, \h30, \h53, \h3C, \hC4, \h6C,
                           \hC2, \h54, \h2B, \hDE, \hC2, \hF9, \h6F, \hD0, \h6F, \h5C, \h53, \h9A,
                           \hFF, \h6E, \hAD, \h58, \h83, \hF7, \h32, \h7A>>
        /\ (f_in.fn = "Shabal256Lite" /\ f_in.test = "C") =>
               f_out.result = <<\h9824, \hD76D, \h62CD, \h4F2F>>
        /\ (f_in.fn = "Shabal256Lite" /\ f_in.test = "D") =>
               f_out.result = <<\h2ACE, \hA174, \h774F, \h5A6A>>

\* the lite hash of test D has been computed from its generation signature
C22_Witness ==
    /\ f_in.fn = "Shabal256Lite"
    /\ f_in.test = "D"
    /\ f_in.gensig[1] = \h4A
    /\ f_out.called
    /\ f_out.result[4] = \h5A6A

(***************************************************************************)
(* Properties of the forging path, checked under Spec.                     *)
(***************************************************************************)
\* C23: when the deadline has fired and the context of the present tip has a
\* height or a generation signature other than the candidate's, the worker's
\* step drops the candidate and no block is built, signed or submitted.
C23_StaleContextAbandons ==
    [][(/\ pc = "wd_ctx"
        /\ pc' # "wd_ctx"
        /\ nodeContextOk
        /\ HasForging
        /\ LET current_context == GetNewBlockContext(tip)
           IN \/ m_current_forging.height # current_context.height
              \/ m_current_forging.generation_sig # current_context.generation_signature)
       => /\ m_current_forging' = NoForging
          /\ sink' = sink
          /\ forge_log' = forge_log
          /\ pc' = "post_wait"]_vars

\* the only submission was installed, its deadline fired, and the candidate is
\* gone without a forge: it was abandoned at the deadline
C23_Witness ==
    /\ pc = "post_wait"
    /\ nodeContextOk
    /\ Len(dequeued) = 1
    /\ stale = {}
    /\ ~HasForging
    /\ forge_log = <<>>
    /\ sink = <<>>
    /\ ~ShutdownRequested

\* C24: every block handed to the submission sink, by the timed path or by
\* defensive forging, is built on the candidate's own tip: its previous-block
\* hash is the candidate's tip_block_hash and its height and generation
\* signature are the candidate's.
C24_BuiltOnCandidateTip ==
    [][Len(sink') > Len(sink)
       => /\ HasForging
          /\ sink'[Len(sink')].hashPrevBlock = m_current_forging.tip_block_hash
          /\ sink'[Len(sink')].nHeight = m_current_forging.height
          /\ sink'[Len(sink')].generationSignature = m_current_forging.generation_sig]_vars

\* C25: the candidate that ProcessSubmission installs describes one tip: its
\* tip_block_hash and block_time are those of a block, and its height,
\* generation signature and base target those of the context on top of that
\* same block, also when the tip changes while the submission is processed.
C25_CandidateOfOneTip ==
    [][(pc = "ps_ctx" /\ m_current_forging' # m_current_forging)
       => \E b \in Blocks :
             /\ m_current_forging'.tip_block_hash = b
             /\ m_current_forging'.block_time = BlockTime(b)
             /\ m_current_forging'.height = NewBlockContexts[b].height
             /\ m_current_forging'.generation_sig = NewBlockContexts[b].generation_signature
             /\ m_current_forging'.base_target = NewBlockContexts[b].base_target]_vars

C27_DropBeforeEvaluation ==
    [][/\ (/\ pc = "ps_tip"
           /\ pc' # "ps_tip"
           /\ nodeContextOk
           /\ HasForging
           /\ m_current_forging.tip_block_hash # tip) => pc' = "ps_def"
       /\ (pc = "ps_def" /\ pc' # "ps_def")
          => /\ m_current_forging' = NoForging
             /\ submission' = submission
             /\ stale' = stale
             /\ pc' = "ps_ctx"
             /\ (sink' # sink \/ forge_log' # forge_log)
                => /\ pprev(current_tip) = m_current_forging.tip_block_hash
                   /\ m_current_forging.quality < BlockQuality(current_tip)
                   /\ Len(forge_log') = Len(forge_log) + 1
                   /\ forge_log'[Len(forge_log')].path = "defensive"
       /\ (pc = "ps_ctx" /\ pc' # "ps_ctx" /\ HasForging)
          => m_current_forging.tip_block_hash = current_tip]_vars

\* a candidate on block 1 was dropped with a defensive forge when a
\* submission was processed on a better block built on block 1
C27_Witness ==
    /\ pc = "ps_ctx"
    /\ ~HasForging
    /\ submission # NoSubmission
    /\ Len(forge_log) = 1
    /\ forge_log[1].path = "defensive"
    /\ pprev(current_tip) = 1

(***************************************************************************)
(* Properties of the waits and of the queue, checked under FairSpec.       *)
(***************************************************************************)
\* C28: from a state with a candidate whose context is that of the tip, an
\* empty queue, no submission being processed and no shutdown, the worker
\* eventually calls ForgeBlock on the timed path for that candidate, unless
\* the context of the tip changes, a further submission is enqueued or
\* Shutdown is called.
C28_WaitingLeadsToForging ==
    \A n \in 1..MaxSubmissions :
        (/\ HasForging
         /\ m_current_forging.nonce = n
         /\ m_submission_queue = <<>>
         /\ submission = NoSubmission
         /\ ~ShutdownRequested
         /\ m_current_forging.height = NewBlockContexts[tip].height
         /\ m_current_forging.generation_sig = NewBlockContexts[tip].generation_signature
         /\ m_current_forging.base_target = NewBlockContexts[tip].base_target)
        ~> (\/ \E i \in 1..Len(forge_log) :
                  forge_log[i].nonce = n /\ forge_log[i].path = "timed"
            \/ /\ HasForging
               /\ m_current_forging.nonce = n
               /\ \/ m_current_forging.height # NewBlockContexts[tip].height
                  \/ m_current_forging.generation_sig
                         # NewBlockContexts[tip].generation_signature
                  \/ m_current_forging.base_target # NewBlockContexts[tip].base_target
            \/ m_submission_queue # <<>>
            \/ ShutdownRequested)

\* the candidate of the only submission was forged on the timed path after the
\* clock was advanced to its forge_time
C28_Witness ==
    /\ Len(enqueued) = 1
    /\ Len(forge_log) = 1
    /\ forge_log[1].path = "timed"
    /\ forge_log[1].nonce = enqueued[1]
    /\ now > 0
    /\ ~HasForging
    /\ ~ShutdownRequested
    /\ tip = QueueTip

\* C29: the shutdown notification is not lost: once Shutdown() has set the
\* flag and broadcast the condition variable, the worker is not blocked in a
\* wait that the broadcast did not reach.
C29_ShutdownNotifyNotLost ==
    ~(/\ ShutdownRequested
      /\ sd_pc = "join"
      /\ WorkerBlocked
      /\ ~cv_notified)

\* C30: while Shutdown is not called, every submission for which SubmitNonce
\* returned true is eventually dequeued and processed by the worker, and the
\* worker is never blocked in a wait with a submission queued whose
\* notification it has not received.
C30_EnqueuedIsProcessed ==
    /\ [](~(WorkerBlocked /\ m_submission_queue # <<>> /\ ~cv_notified))
    /\ \A n \in 1..MaxSubmissions :
          (\E i \in 1..Len(enqueued) : enqueued[i] = n)
          ~> (\/ ShutdownRequested
              \/ /\ \E i \in 1..Len(dequeued) : dequeued[i] = n
                 /\ submission.nonce # n)

\* two submissions were enqueued, and the worker has dequeued and processed
\* both before the clock advanced
C30_Witness ==
    /\ Len(enqueued) = 2
    /\ Len(dequeued) = 2
    /\ submission = NoSubmission
    /\ pc = "loop"
    /\ ~ShutdownRequested
    /\ now = 0
    /\ forge_log = <<>>

(***************************************************************************)
(* Properties of the recomputation at the deadline, checked under Spec.    *)
(***************************************************************************)
\* C31: when the deadline has fired and the context of the present tip has
\* the candidate's height and generation signature and another base target,
\* the worker emits no block: the candidate keeps account, seed, nonce,
\* quality and compression, takes the new base target and the time-bent
\* deadline for it, then takes forge_time from the time of the tip of that
\* moment, and the worker returns to its loop with the candidate installed.
C31_BaseTargetOnlyRetimes ==
    /\ [][(/\ pc = "wd_ctx"
           /\ pc' # "wd_ctx"
           /\ nodeContextOk
           /\ HasForging
           /\ m_current_forging.height = GetNewBlockContext(tip).height
           /\ m_current_forging.generation_sig = GetNewBlockContext(tip).generation_signature
           /\ m_current_forging.base_target # GetNewBlockContext(tip).base_target)
          => /\ pc' = "wd_retime"
             /\ sink' = sink
             /\ forge_log' = forge_log
             /\ m_current_forging' =
                    [m_current_forging EXCEPT
                       !.base_target = GetNewBlockContext(tip).base_target,
                       !.deadline_seconds =
                           CalculateTimeBendedDeadline(m_current_forging.quality,
                               GetNewBlockContext(tip).base_target, nPowTargetSpacing)]]_vars
    /\ [][(pc = "wd_retime" /\ pc' # "wd_retime")
          => /\ pc' = "post_wait"
             /\ sink' = sink
             /\ forge_log' = forge_log
             /\ m_current_forging' =
                    [m_current_forging EXCEPT
                       !.forge_time = BlockTime(tip) + m_current_forging.deadline_seconds]]_vars
    /\ [][pc = "wd_retime" => (HasForging' /\ sink' = sink /\ forge_log' = forge_log)]_vars

\* the candidate was installed on one block, the tip moved to its sibling of
\* another time and base target, the deadline fired and the candidate was
\* retimed from the sibling's time without a forge
C31_Witness ==
    /\ pc = "post_wait"
    /\ HasForging
    /\ m_current_forging.tip_block_hash # tip
    /\ BlockTime(m_current_forging.tip_block_hash) # BlockTime(tip)
    /\ m_current_forging.base_target = GetNewBlockContext(tip).base_target
    /\ m_current_forging.base_target
           # GetNewBlockContext(m_current_forging.tip_block_hash).base_target
    /\ m_current_forging.forge_time = BlockTime(tip) + m_current_forging.deadline_seconds
    /\ forge_log = <<>>
    /\ sink = <<>>

\* C32: whenever a candidate is installed and the worker is not in the middle
\* of the recomputation, forge_time is the candidate's stored block_time plus
\* deadline_seconds, and deadline_seconds is the time-bent deadline of the
\* candidate's stored quality and base_target.
C32_ForgeTimeOfStoredFields ==
    (HasForging /\ pc # "wd_retime")
    => /\ m_current_forging.forge_time
              = m_current_forging.block_time + m_current_forging.deadline_seconds
       /\ m_current_forging.deadline_seconds
              = CalculateTimeBendedDeadline(m_current_forging.quality,
                    m_current_forging.base_target, nPowTargetSpacing)

(***************************************************************************)
(* Properties of shutdown and of the locks, checked under Spec.            *)
(***************************************************************************)
\* C33: once Shutdown() has set the shutdown flag, the worker calls
\* ForgeBlock no more, on the timed path or for defensive forging, and no
\* block reaches the submission sink.
C33_NoForgeAfterShutdown ==
    [][ShutdownRequested => (forge_log' = forge_log /\ sink' = sink)]_vars

(***************************************************************************)
(* Properties of ForgeBlock, checked under SpecForge.                      *)
(***************************************************************************)
\* C34: in every block handed to the submission sink, the coinbase pays the
\* key that signed the block: BuildBlock's payee and the signer of
\* SignPoCXBlockWithAvailableWallet are one effective signer, whatever the
\* chain tip and the assignment records did between the two steps.
C34_PayeeIsSigner ==
    \A i \in 1..Len(fg_sink) :
        fg_sink[i].vtx[1].vout.witness_v0_keyhash = KeyIdOf(fg_sink[i].vchPubKey)

(***************************************************************************)
(* Properties of the arithmetic of the adjustment, checked under           *)
(* SpecWindow.                                                             *)
(***************************************************************************)
\* the sum of the window's base targets in unbounded integers
RECURSIVE ExactSum(_, _, _)
ExactSum(index, walker, n) ==
    IF n = 0 \/ walker = NoBlock THEN 0
    ELSE index[walker].nBaseTarget + ExactSum(index, index[walker].pprev, n - 1)

\* C35: for every chain whose base targets are at most the genesis base
\* target, low-capacity calibration included, and every block above the
\* genesis block taken as the last block, the sum of the window's base
\* targets and the product of their average with the clamped timespan are
\* below 2^64 (scaled), so the uint64_t sum and product equal the unbounded
\* ones.
C35_NoWrap ==
    \A b \in DOMAIN d_index :
        (/\ d_index[b].nHeight > 0
         /\ \A a \in DOMAIN d_index :
               d_index[a].nBaseTarget
                  <= CalculateGenesisBaseTarget(d_params.nPowTargetSpacing,
                                                d_params.fPoCXLowCapacityCalibration))
        => LET lookback == Lookback(d_index, b, d_params)
               total == ExactSum(d_index, b, lookback)
           IN /\ total < UINT64_MOD
              /\ SumBaseTarget(d_index, b, lookback) = total
              /\ (total \div lookback) * ClampedTimespan(d_index, b, d_params) < UINT64_MOD

(***************************************************************************)
(* Properties of the adjustment on schedule, checked under SpecChain.      *)
(***************************************************************************)
\* the blocks of the rolling window that ends at a block
WindowBlocks(index, pindexLast, params) ==
    LET lookback == Lookback(index, pindexLast, params)
    IN {GetAncestor(index, pindexLast, h) :
            h \in (index[pindexLast].nHeight - lookback + 1)..index[pindexLast].nHeight}

\* C36: if every block of the rolling window has the same base target B,
\* 1 <= B <= GENESIS, and every block of the window comes exactly the target
\* spacing after its parent, GetNextBaseTarget returns B.
C36_StableOnSchedule ==
    \A b \in DOMAIN d_index :
        LET window == WindowBlocks(d_index, b, d_params)
            B == d_index[b].nBaseTarget
        IN (/\ d_index[b].nHeight > 0
            /\ B >= 1
            /\ B <= CalculateGenesisBaseTarget(d_params.nPowTargetSpacing,
                                               d_params.fPoCXLowCapacityCalibration)
            /\ \A w \in window :
                  /\ d_index[w].nBaseTarget = B
                  /\ d_index[w].nTime
                        = d_index[d_index[w].pprev].nTime + d_params.nPowTargetSpacing)
           => GetNextBaseTarget(d_index, b, d_params) = B

\* the worker's positions whose next step takes cs_main or calls the host
\* chain: the tip read of ProcessSubmission (scheduler.cpp:143), the
\* defensive forge, GetNewBlockContext (scheduler.cpp:158, 253), the
\* recomputation under cs_main (scheduler.cpp:283) and ForgeBlock
WorkerAtChainLookup ==
    pc \in {"ps_tip", "ps_def", "ps_ctx", "wd_ctx", "wd_retime", "wd_forge"}

\* C37: the worker is never about to take cs_main or to call the host chain
\* while it holds the queue mutex, and no step that takes, holds or releases
\* the queue mutex or changes the queue (SubmitNonce's push, the worker's
\* pop) reads the tip, forges or submits: the queue mutex and cs_main are
\* never held together.
C37_QueueMutexNeverWithCsMain ==
    /\ [](WorkerAtChainLookup => m_queue_mutex = "free")
    /\ [][(\/ m_queue_mutex # "free"
           \/ m_queue_mutex' # "free"
           \/ m_submission_queue' # m_submission_queue)
          => /\ current_tip' = current_tip
             /\ sink' = sink
             /\ forge_log' = forge_log
             /\ m_current_forging' = m_current_forging]_vars

\* the worker installed a candidate after two chain lookups and now holds
\* the queue mutex on its way into the deadline wait, with a submission
\* already pushed meanwhile by SubmitNonce
C37_Witness ==
    /\ pc = "wd_enter"
    /\ m_queue_mutex = "worker"
    /\ HasForging
    /\ Len(enqueued) >= 2

\* the block that ForgeBlock is handing over is built and signed in full
BuiltAndSigned(block, forging, signer) ==
    /\ ~IsNull(block.pocxProof)
    /\ block.pocxProof = [seed |-> forging.seed, account_id |-> forging.account_id,
                          compression |-> forging.compression, nonce |-> forging.nonce,
                          quality |-> forging.quality]
    /\ block.hashMerkleRoot = BlockMerkleRoot(block)
    /\ Len(block.vchPubKey) = PUBKEY_LEN
    /\ block.vchPubKey = PubKeyOf(signer)
    /\ Len(block.vchSignature) = SIG_LEN
    /\ block.vchSignature # NullSignature

\* C38: a block reaches the submission sink only from SubmitForgedBlock, and
\* then it carries a non-null proof with the candidate's account id, seed,
\* nonce, quality and compression, the merkle root of its transactions as
\* recomputed after the proof was filled, the signer's 33-byte public key
\* and a 65-byte signature; a ForgeBlock call whose build or signing failed
\* returns without handing anything over.
C38_SinkBlocksComplete ==
    /\ [][fg_sink' # fg_sink =>
             /\ fg_pc = "submit"
             /\ fg_sink' = Append(fg_sink, fg_block)
             /\ BuiltAndSigned(fg_block, fg_forging, fg_signer)]_vars
    /\ [][(fg_pc \in {"payee", "template", "signer", "sign"} /\ fg_pc' = "return")
             => fg_sink' = fg_sink]_vars
    /\ [][(fg_pc = "return" /\ fg_pc' = "idle") => fg_sink' = fg_sink]_vars

\* the block of a candidate with nonce 0 was handed over and ForgeBlock is
\* about to return
C38_Witness ==
    /\ Len(fg_sink) = 1
    /\ fg_sink[1].pocxProof.nonce = 0
    /\ fg_sink[1].vchSignature # NullSignature
    /\ fg_pc = "return"

\* C39: the header hash of a block is the same whatever its signature field
\* holds; SignPoCXBlock changes only the public key and the signature of the
\* block, and the hash it signed is GetHash() of the block with the public
\* key and the signature in place, which is the block handed over.
C39_SignedHashIsBlockHash ==
    /\ []("vchSignature" \in DOMAIN fg_block =>
             \A keyid \in {1, 3} :
                 /\ GetHash([fg_block EXCEPT !.vchSignature = SignatureOf(keyid, SIG_LEN)])
                       = GetHash(fg_block)
                 /\ GetHash([fg_block EXCEPT !.vchSignature = NullSignature])
                       = GetHash(fg_block))
    /\ [](fg_pc = "submit" =>
             /\ fg_block.vchPubKey = PubKeyOf(fg_signer)
             /\ fg_final_hash = GetHash(fg_block))
    /\ [][(fg_pc = "sign" /\ fg_pc' = "submit") =>
             fg_block' = [fg_block EXCEPT !.vchPubKey = PubKeyOf(fg_signer),
                                          !.vchSignature = SignatureOf(fg_signer, SIG_LEN)]]_vars
    /\ [][fg_sink' # fg_sink => GetHash(fg_sink'[Len(fg_sink')]) = fg_final_hash]_vars

\* a block was signed with the key of a forging address the plot is assigned
\* to and is about to be handed over
C39_Witness ==
    /\ fg_pc = "submit"
    /\ fg_signer = 3
    /\ fg_block.vchSignature = SignatureOf(3, SIG_LEN)
    /\ fg_final_hash # <<>>

(***************************************************************************)
(* Properties of the integer cube root, checked under SpecFn.              *)
(***************************************************************************)
\* C40: for every argument, 0, 1 and the perfect cubes included, the call of
\* int_cuberoot_u256 returns, and it returns the r with r^3 <= x < (r+1)^3;
\* the doubling stops at a power of two whose cube is below 8x, so no cube
\* the routine forms leaves the 256-bit word for x < 2^192.
C40_ExactCubeRoot ==
    f_in.fn = "int_cuberoot_u256" =>
        /\ ~f_out.called => ENABLED CallIntCubeRoot
        /\ f_out.called =>
              LET x == f_in.x
                  r == f_out.root
                  hi == CubeRootHi(1, x)
              IN /\ r >= 0
                 /\ r * r * r <= x
                 /\ x < (r + 1) * (r + 1) * (r + 1)
                 /\ \A s \in 0..(r + 1) : (s * s * s <= x /\ x < (s + 1) * (s + 1) * (s + 1)) => s = r
                 /\ hi * hi * hi <= Max(1, 8 * x)
                 /\ r <= hi

\* the call returned the root of a perfect cube
C40_Witness ==
    /\ f_in.fn = "int_cuberoot_u256"
    /\ f_out.called
    /\ f_in.x = 3375
    /\ f_out.root = 15
====
